---- MODULE Spec2Model ----
(***************************************************************************)
(* Connection lifecycle, query execution and error reporting of the Wpdb   *)
(* class (src/wp-includes/class-wpdb.js).                                  *)
(*                                                                         *)
(* The database driver is the environment.  The model follows the driver   *)
(* protocol the class reads: createConnection() and dbh.connect() resolve  *)
(* or reject, dbh.query() resolves and the handle exposes errno, error,    *)
(* affectedRows and insertId of the statement it ran last.                 *)
(*                                                                         *)
(* JavaScript values are rendered as strings where a field or a return     *)
(* value mixes types: "true", "false", "undef" (undefined), "null";        *)
(* "threw" is an exception leaving the call, "exit" is process.exit(1).    *)
(***************************************************************************)
EXTENDS Integers, Sequences, FiniteSets, TLC

\* ---------------------------------------------------------------- bounds
MaxRows == 2
MaxValues == 2
MaxBytes == 3
MaxQueries == 3
MaxId == 1
MaxCols == 2
MaxBlogId == 10
MaxArgs == 2
MaxWords == 4

\* ------------------------------------------------------ program constants
reconnectRetries == 5
ErrnoGoneAway == 2006

Null == "null"
NullResult == << <<"null", 0>> >>

\* ------------------------------------------------------------ query texts
SelectQueries == {"SELECT a", "SELECT b"}
InsertQueries == {"INSERT c"}
OtherDmlQueries == {"UPDATE d"}
DdlQueries == {"CREATE e"}
NonAsciiQueries == {"CREATE e-acute"}
Queries == {""} \cup SelectQueries \cup InsertQueries \cup OtherDmlQueries
              \cup DdlQueries \cup NonAsciiQueries

\* /^\s*(create|alter|truncate|drop)\s/i
IsDdl(query) == query \in DdlQueries \cup NonAsciiQueries
\* /^\s*(insert|delete|update|replace)\s/i
IsDml(query) == query \in InsertQueries \cup OtherDmlQueries
\* /^\s*(insert|replace)\s/i
IsInsert(query) == query \in InsertQueries

checkAscii(inputString) == inputString \notin NonAsciiQueries

\* /^(SHOW|DESCRIBE|DESC|EXPLAIN|CREATE)\s/i
IsPassThrough(query) == query \in {"CREATE e", "CREATE e-acute"}

\* stripInvalidTextFromQuery returns SHOW/DESCRIBE/DESC/EXPLAIN/CREATE
\* statements as they are.  For any other statement it is synchronous code
\* reading data[0].value of the promise the async stripInvalidText returns
\* (or iterating the promise getResults returns inside getTableCharset),
\* which is a TypeError.
stripInvalidTextFromQuery(query) ==
  IF IsPassThrough(query) THEN query ELSE "threw"

\* ------------------------------------------------- tables and columns
Tables == {"t", "T"}
\* table.toLowerCase()
ToLower(table) == IF table = "T" THEN "t" ELSE table
TableKeys == {ToLower(table) : table \in Tables}

\* The introspection statement for a table (the code quotes the name with
\* backticks).
ShowColumns(table) ==
  IF table = "t" THEN "SHOW FULL COLUMNS FROM t"
  ELSE "SHOW FULL COLUMNS FROM T"

Collations == {"utf8_general_ci", "utf8mb3_bin", "utf8mb4_bin", "latin1_bin",
               "big5_bin"}
\* column.Collation.split('_')[0].toLowerCase()
CollationCharset(collation) ==
  CASE collation = "utf8_general_ci" -> "utf8"
    [] collation = "utf8mb3_bin" -> "utf8mb3"
    [] collation = "utf8mb4_bin" -> "utf8mb4"
    [] collation = "latin1_bin" -> "latin1"
    [] OTHER -> "big5"

\* column.Type.split('(')[0].toUpperCase()
TypeName(type) == IF type = "blob" THEN "BLOB" ELSE "VARCHAR"
BinaryTypes == {"BINARY", "VARBINARY", "TINYBLOB", "MEDIUMBLOB", "BLOB",
                "LONGBLOB"}

\* Rows of SHOW FULL COLUMNS: text columns with a collation, and a blob
\* column, which has none.
ColumnKinds ==
  [Collation : Collations, Type : {"varchar(20)"}]
    \cup [Collation : {""}, Type : {"blob"}]
Schemas == UNION {[1..n -> ColumnKinds] : n \in 0..MaxCols}

\* The charsets the loop over the columns has collected after column n.
RECURSIVE charsetsUpTo(_, _)
charsetsUpTo(columns, n) ==
  IF n = 0 THEN {}
  ELSE charsetsUpTo(columns, n - 1)
         \cup (IF columns[n].Collation # ""
                 THEN {CollationCharset(columns[n].Collation)} ELSE {})

\* The loop returns 'binary' at the first column of a binary or blob type.
HasBinaryColumn(columns) ==
  \E i \in DOMAIN columns : TypeName(columns[i].Type) \in BinaryTypes

\* utf8mb3 is an alias for utf8.
foldUtf8mb3(charsets) ==
  IF "utf8mb3" \in charsets
    THEN (charsets \cup {"utf8"}) \ {"utf8mb3"}
    ELSE charsets

\* The charset chosen from the collected set; "false" is JavaScript's false.
resolveCharsets(charsets) ==
  LET folded == foldUtf8mb3(charsets)
      count == Cardinality(folded)
      rest == folded \ {"latin1"}
      newCount == Cardinality(rest)
  IN
  IF count = 1 THEN CHOOSE c \in folded : TRUE
  ELSE IF count = 0 THEN "false"
  ELSE IF newCount = 1 THEN CHOOSE c \in rest : TRUE
  ELSE IF newCount = 2 /\ "utf8" \in rest /\ "utf8mb4" \in rest THEN "utf8"
  ELSE "ascii"

\* What getTableCharset computes from the rows of SHOW FULL COLUMNS.
computeTableCharset(columns) ==
  IF HasBinaryColumn(columns) THEN "binary"
  ELSE resolveCharsets(charsetsUpTo(columns, Len(columns)))

\* getResults is an async function: a caller that does not await it holds
\* a promise, whatever the query does.
getResultsValue == "promise"

\* if (this.tableCharset[tableKey]): a cached value is used when truthy.
CachedTruthy(value) == value \notin {"unset", "false"}

\* ------------------------------------------------------- driver outcomes
CreateRejects == {"createRejectCred", "createRejectGone"}
ConnectRejects == {"connectRejectCred", "connectRejectGone"}
ConnOutcomes == CreateRejects \cup ConnectRejects \cup {"ok"}
CredOutcomes == {"createRejectCred", "connectRejectCred"}

ErrorTexts == {"syntax error"}
GoneText == "server has gone away"
NoHandleText == "Unable to retrieve the error message from MySQL"
InvalidDataText == "WordPress database error: Could not perform query because it contains invalid data."

ConnectFailMessage == "Error establishing a database connection"
ReconnectFailMessage == "Error reconnecting to the database"

VARIABLES
  envSeen,          \* environment flags the call in flight found set
  proc,             \* "running" | "exited"
  exitFrom,         \* operation during which process.exit ran
  showErrors, suppressErrors, ready, hasConnected, isMySQL,
  dbh,              \* "null" | "conn"
  error,            \* this.error, <<>> for null
  checkCurrentQuery,
  lastError, lastQuery, lastResult, numRows, rowsAffected, insertId,
  numQueries, result,
  dbhErrno, dbhError, dbhAffectedRows, dbhInsertId,
  pc,               \* position of the call in flight, "idle" when none
  caller,           \* who awaits checkConnection: "top" | "query"
  op,               \* the last operation started
  ret,              \* what the last finished top-level operation returned
  retNum,           \* the number returned when ret = "number"
  curQuery,         \* argument of the query() call in flight / last run
  execs,            \* _doQuery calls made by that query() call
  sends,            \* statements that call handed to dbh.query
  lossDetected,     \* that call saw no handle or errno 2006
  drvError,         \* error text the driver reported for its last execution
  hadRows,          \* lastResult held rows when that call flushed it
  ccAllowBail, tries, attempts, delays, ccRet,
  probeFailed,      \* checkConnection's liveness probe did not answer
  lastAttempt,      \* driver's answer to the last dbConnect, "none" if none
  anyPhysOk,        \* some attempt of this call opened the physical connection
  bailLog,          \* last bail call: <<mode, handle, outcome>>, <<>> if none
  setupSteps,       \* charset / sql-mode / schema steps run by the last dbConnect
  tableCharset,     \* this.tableCharset: table key -> charset, "unset" if none
  colMeta,          \* this.colMeta: table key -> columns, "unset" if none
  introspected,     \* table keys a SHOW FULL COLUMNS statement was issued for
  gtcTable,         \* argument of the last getTableCharset call
  gtcCols,          \* columns the database holds for that table
  gtcRet,           \* what that call returned
  gtcIssued,        \* that call passed an introspection statement to _doQuery
  gtcAgain,         \* the table key had been introspected before that call
  IS_MULTISITE,     \* process.env.IS_MULTISITE is set
  MULTISITE,        \* process.env.MULTISITE is set
  basePrefix, prefix, blogId, siteId,
  tableNames,       \* the table-name fields: bare name -> prefixed name
  pfxPrefix,        \* prefix argument of the last call, if it was setPrefix
  pfxSetNames,      \* setTableNames argument of that call
  pfxBlogId,        \* blogId argument of the last call, if it took one
  pfxRet,           \* what the last of these calls returned
  prepQuery,        \* query argument of the last prepare call
  prepArgs,         \* the arguments after it, or the elements of the one array
  prepArray,        \* they were passed as one array
  prepRet,          \* what that call returned
  prepWarn,         \* the conflicts its dual-use warning listed
  _placeholder,     \* this._placeholder, "" while there is none
  tokenUsed,        \* the token the last operation used, "" if it used none
  escQuery,         \* argument of the last add/removePlaceholderEscape call
  escOrigin,        \* the query whose escaped form that argument is, if any
  escRet,           \* what that call returned
  crudData,         \* data argument of the last insert/replace/update call
  crudFormat,       \* its format argument
  crudWhere,        \* where argument of the last update/delete call
  crudWhereFormat,  \* its whereFormat argument
  crudRet,          \* what the last of these calls returned
  crudSql,          \* the statement that call handed to prepare and query
  crudValues,       \* the values it handed to prepare with it
  awaiting,         \* the operation that awaits the query() call in flight
  grOutput,         \* output argument of the last getResults call
  grRet,            \* what that call returned
  sitData,          \* data argument of the last stripInvalidText call
  sitOut,           \* that data as the call has left it
  sitRet,           \* "data" | "threw", "none" while the call is not done
  sitCalls,         \* query() calls that call made
  sitParts,         \* the columns its statement converts
  setName,          \* name argument of the set call just made, else "none";
                    \* "off" throughout when set calls are not observed
  setValue,         \* its value argument
  gtqQuery,         \* the statement getTableFromQuery is asked about
  gtqRet,           \* what getTableFromQuery returned
  sifqRet           \* how stripInvalidTextFromQuery ended

vars == << envSeen, proc, exitFrom, showErrors, suppressErrors, ready,
           hasConnected, isMySQL, dbh, error, checkCurrentQuery, lastError,
           lastQuery, lastResult, numRows, rowsAffected, insertId,
           numQueries, result, dbhErrno, dbhError, dbhAffectedRows,
           dbhInsertId, pc, caller, op, ret, retNum, curQuery, execs, sends,
           lossDetected, drvError, hadRows, ccAllowBail, tries, attempts, delays,
           ccRet, probeFailed, lastAttempt, anyPhysOk, bailLog, setupSteps,
           tableCharset, colMeta, introspected, gtcTable, gtcCols, gtcRet,
           gtcIssued, gtcAgain, IS_MULTISITE, MULTISITE, basePrefix, prefix,
           blogId, siteId, tableNames, pfxPrefix, pfxSetNames, pfxBlogId,
           pfxRet, prepQuery, prepArgs, prepArray, prepRet, prepWarn,
           _placeholder, tokenUsed, escQuery, escOrigin, escRet,
           crudData, crudFormat, crudWhere, crudWhereFormat, crudRet,
           crudSql, crudValues, awaiting, grOutput, grRet, sitData, sitOut,
           sitRet, sitCalls, sitParts, setName, setValue, gtqQuery,
           gtqRet, sifqRet >>

instVars == << showErrors, suppressErrors, ready, hasConnected, isMySQL,
               error, checkCurrentQuery >>
resultVars == << lastError, lastQuery, lastResult, numRows, rowsAffected,
                 result >>
driverVars == << dbhErrno, dbhError, dbhAffectedRows, dbhInsertId >>
queryHist == << curQuery, execs, sends, lossDetected, drvError, hadRows >>
ccHist == << caller, ccAllowBail, tries, attempts, delays, ccRet,
             probeFailed, lastAttempt, anyPhysOk >>
charsetVars == << tableCharset, colMeta, introspected, gtcTable, gtcCols,
                  gtcRet, gtcIssued, gtcAgain >>
prefixVars == << IS_MULTISITE, MULTISITE, basePrefix, prefix, blogId, siteId,
                 tableNames, pfxPrefix, pfxSetNames, pfxBlogId, pfxRet >>
\* What the connection and query operations never touch.
prepareVars == << prepQuery, prepArgs, prepArray, prepRet, prepWarn >>
escapeVars == << _placeholder, tokenUsed, escQuery, escOrigin, escRet >>
crudVars == << crudData, crudFormat, crudWhere, crudWhereFormat, crudRet,
              crudSql, crudValues >>
resultsVars == << grOutput, grRet >>
stripVars == << sitData, sitOut, sitRet, sitCalls, sitParts >>
tableVars == << gtqQuery, gtqRet, sifqRet >>
extVars == << charsetVars, prefixVars, prepareVars, escapeVars, crudVars,
             awaiting, resultsVars, stripVars, tableVars >>
\* What an operation that neither connects nor queries leaves alone.
quietVars == << envSeen, proc, exitFrom, instVars, dbh, resultVars, insertId,
               numQueries, driverVars, pc, ret, retNum, queryHist, ccHist,
               bailLog, setupSteps >>

\* Any operation but set forgets the arguments of the last set call.
NoSet ==
  /\ setName' = IF setName = "off" THEN "off" ELSE "none"
  /\ setValue' = FALSE

Truthy(r) == r \in {"true", "object"}

\* process.env and the globals are read where the code reads them; each
\* read is an input of the step, and envSeen keeps the flags found set.
Seen(name, flag) == IF flag THEN {name} ELSE {}

\* ---------------------------------------------------- prefixes and names
\* A string is the sequence of its characters; a bare table name is kept
\* as one piece.
Digits == << "0", "1", "2", "3", "4", "5", "6", "7", "8", "9" >>
\* [a-z0-9_] with the i flag
WordChars ==
  {"a", "b", "c", "d", "e", "f", "g", "h", "i", "j", "k", "l", "m", "n", "o",
   "p", "q", "r", "s", "t", "u", "v", "w", "x", "y", "z", "A", "B", "C", "D",
   "E", "F", "G", "H", "I", "J", "K", "L", "M", "N", "O", "P", "Q", "R", "S",
   "T", "U", "V", "W", "X", "Y", "Z", "_"} \cup {Digits[i] : i \in 1..10}

\* `${n}` for a non-negative integer.
RECURSIVE Decimal(_)
Decimal(n) ==
  IF n < 10 THEN << Digits[n + 1] >>
  ELSE Decimal(n \div 10) \o << Digits[(n % 10) + 1] >>

\* Prefixes handed to setPrefix.
Prefixes == { << >>, << "w", "p", "_" >>, << "W", "2" >>, << "w", "-" >>,
              << "$" >>, << "w", "p", " " >> }

\* this.tables, this.oldTables, this.globalTables, this.msGlobalTables,
\* this.oldMsGlobalTables
blogTableList == {"posts", "comments", "links", "options", "postmeta", "terms",
                  "term_taxonomy", "term_relationships", "termmeta",
                  "commentmeta"}
oldTables == {"categories", "post2cat", "link2cat"}
globalTables == {"users", "usermeta"}
msGlobalTables == {"blogs", "blogmeta", "signups", "site", "sitemeta",
                   "registration_log"}
oldMsGlobalTables == {"sitecategories"}
AllTables == blogTableList \cup oldTables \cup globalTables
               \cup msGlobalTables \cup oldMsGlobalTables

\* The class declares a field named tables and a method named tables; the
\* field is an own property of the instance and hides the method, so
\* this.tables is an array and calling it is a TypeError.
tablesIsFunction == FALSE

\* blogId = null
ArgNull == -1

\* A test that also turns the empty prefix down.
InvalidPrefixOrEmpty(p) == p = << >> \/ \E i \in DOMAIN p : p[i] \notin WordChars
\* /[^a-z0-9_]/i.test(prefix)
InvalidPrefix(p) == \E i \in DOMAIN p : p[i] \notin WordChars

\* getBlogPrefix that looks at IS_MULTISITE only.
getBlogPrefixOneFlag(base, current, arg) ==
  IF IS_MULTISITE
    THEN LET id == IF arg = ArgNull THEN current ELSE arg IN
         IF id = 0 \/ id = 1 THEN base ELSE base \o Decimal(id) \o << "_" >>
    ELSE base
\* getBlogPrefix(blogId) on an instance whose basePrefix is base and whose
\* blogId is current.
getBlogPrefix(base, current, arg) ==
  IF IS_MULTISITE
    THEN LET id == IF arg = ArgNull THEN current ELSE arg IN
         IF MULTISITE /\ (id = 0 \/ id = 1) THEN base
         ELSE base \o Decimal(id) \o << "_" >>
    ELSE base

\* The table list tables(scope) prefixes.
tablesOfScope(scope) ==
  CASE scope = "blog" -> blogTableList
    [] scope = "global" -> globalTables
    [] scope = "old" -> IF IS_MULTISITE THEN oldTables \cup oldMsGlobalTables
                        ELSE oldTables
    [] OTHER -> {}

\* The names after this[table] = prefixedTable for each entry of
\* tables(scope), on an instance whose basePrefix is base and blogId current.
withTables(names, scope, base, current) ==
  [t \in DOMAIN names |->
     IF t \in tablesOfScope(scope)
       THEN getBlogPrefix(base, current, current) \o << t >>
       ELSE names[t]]

\* What the prefix operations return.
NoValue == [kind |-> "none", str |-> << >>, num |-> 0]
ErrorValue == [kind |-> "error", str |-> << >>, num |-> 0]
Threw == [kind |-> "threw", str |-> << >>, num |-> 0]
StringValue(str) == [kind |-> "string", str |-> str, num |-> 0]
NumberValue(num) == [kind |-> "number", str |-> << >>, num |-> num]

\* ---------------------------------------------------------------- prepare
\* An element of the array split() returns: a string or undefined.
Undefined == [def |-> FALSE, s |-> << >>]
Elem(str) == [def |-> TRUE, s |-> str]
\* The element as string concatenation sees it.
Text(e) ==
  IF e.def THEN e.s ELSE << "u", "n", "d", "e", "f", "i", "n", "e", "d" >>
\* array[i], i counted from 0
At(array, i) == IF i < Len(array) THEN array[i + 1] ELSE Undefined

\* str.slice(begin, -fromEnd) and str.slice(-1)
slice(str, begin, fromEnd) == SubSeq(str, begin + 1, Len(str) - fromEnd)
lastChar(str) == IF str = << >> THEN << >> ELSE << str[Len(str)] >>

\* parseInt(str, 10): blanks are skipped, then the leading digits count;
\* NaN stands for the result when there is none.  The strings met here
\* carry no sign.
NaN == -1
DigitValue(c) == CHOOSE d \in 0..9 : Digits[d + 1] = c
RECURSIVE leadingNumber(_, _, _)
leadingNumber(str, i, value) ==
  IF i <= Len(str) /\ \E d \in 0..9 : Digits[d + 1] = str[i]
    THEN leadingNumber(str, i + 1,
                       (IF value = NaN THEN 0 ELSE 10 * value)
                         + DigitValue(str[i]))
    ELSE value
RECURSIVE parseInt(_)
parseInt(str) ==
  IF str # << >> /\ str[1] = " " THEN parseInt(Tail(str))
  ELSE leadingNumber(str, 1, NaN)

\* A query is kept by its parts: texts without a percent sign around
\* placeholders of the form %s or %N$s (type s, d, f, F or i; num = 0 when
\* the placeholder carries no argument number).  The text between two
\* placeholders is not empty.
Template(texts, placeholders) == [texts |-> texts, phs |-> placeholders]
Ph(num, type) == [num |-> num, type |-> type]
argnumOf(ph) == IF ph.num > 0 THEN Decimal(ph.num) \o << "$" >> ELSE << >>
placeholderText(ph) == << "%" >> \o argnumOf(ph) \o << ph.type >>

\* query.split(/(^|[^%]|(?:%%)+)(%(allowedFormat)?[sdfFi])/): for each
\* placeholder the text before it less its last character, that character
\* (group 1), the placeholder (group 2) and its format (group 3, undefined
\* when the format is empty), then the text after the last placeholder.
RECURSIVE splitQuery(_, _)
splitQuery(t, n) ==
  IF n = 0 THEN << >>
  ELSE splitQuery(t, n - 1)
         \o << Elem(slice(t.texts[n], 0, IF t.texts[n] = << >> THEN 0 ELSE 1)),
               Elem(lastChar(t.texts[n])),
               Elem(placeholderText(t.phs[n])),
               IF t.phs[n].num > 0 THEN Elem(argnumOf(t.phs[n]))
               ELSE Undefined >>

allowUnsafeUnquotedParameters == TRUE

\* '\`%${format}s\`', a string in single quotes: the characters as written.
Backtick == "backtick"
identifierPlaceholder ==
  << Backtick, "%", "$", "{", "f", "o", "r", "m", "a", "t", "}", "s",
     Backtick >>

\* The argument a placeholder with this format refers to.
argPosition(format, argID) ==
  IF \E i \in DOMAIN format : format[i] = "$"
    THEN LET argnumPos == CHOOSE i \in DOMAIN format :
                            /\ format[i] = "$"
                            /\ \A j \in 1..(i - 1) : format[j] # "$"
             n == parseInt(SubSeq(format, 1, argnumPos - 1))
         IN IF n = NaN THEN NaN ELSE n - 1
    ELSE argID

\* The first loop of prepare over splitQuery[2], [5], [8], ...; threw when
\* it reads a property of undefined or assigns to a const.
RECURSIVE scanPlaceholders(_, _, _, _)
scanPlaceholders(array, key, argID, acc) ==
  IF key >= Len(array) THEN [acc EXCEPT !.key = key]
  ELSE
    LET placeholder == At(array, key)
        before == At(array, key - 1)
        format == slice(placeholder.s, 1, 1)
        type == lastChar(placeholder.s)
        isIdentifier == type = << "i" >>
        isValue == ~isIdentifier /\ type \notin {<< "d" >>, << "F" >>}
        quoted == \/ ~allowUnsafeUnquotedParameters
                  \/ format = << >> /\ lastChar(before.s) # << "%" >>
        newPlaceholder ==
          IF isIdentifier THEN identifierPlaceholder
          ELSE IF isValue /\ quoted
            THEN << "'", "%" >> \o format \o << "s", "'" >>
          ELSE placeholder.s
    IN
    IF ~placeholder.def THEN [acc EXCEPT !.threw = TRUE]
    \* --placeholderCount and type = 'F' assign to a const
    ELSE IF type = << "f" >> THEN [acc EXCEPT !.threw = TRUE]
    ELSE IF /\ isValue /\ allowUnsafeUnquotedParameters /\ format = << >>
            /\ ~before.def
      THEN [acc EXCEPT !.threw = TRUE]
    ELSE scanPlaceholders(array, key + 3, argID + 1,
           [newQuery |-> acc.newQuery \o Text(At(array, key - 2))
                           \o Text(before) \o newPlaceholder,
            argIdentifiers |->
              IF isIdentifier
                THEN Append(acc.argIdentifiers, argPosition(format, argID))
                ELSE acc.argIdentifiers,
            argStrings |->
              IF isValue
                THEN Append(acc.argStrings, argPosition(format, argID))
                ELSE acc.argStrings,
            threw |-> FALSE, key |-> key])

\* usedPlaceholders[argPos] of the second loop.
RECURSIVE usedPlaceholders(_, _, _, _)
usedPlaceholders(array, key, argID, argPos) ==
  IF key >= Len(array) THEN << >>
  ELSE LET placeholder == At(array, key).s IN
       (IF argPosition(slice(placeholder, 1, 1), argID) = argPos
          THEN << placeholder >> ELSE << >>)
         \o usedPlaceholders(array, key + 3, argID + 1, argPos)

RECURSIVE maxNumberedPlaceholder(_, _, _)
maxNumberedPlaceholder(array, i, max) ==
  IF i >= Len(array) THEN max
  ELSE LET argnum == parseInt(slice(At(array, i).s, 1, 0)) IN
       maxNumberedPlaceholder(array, i + 3,
                              IF max < argnum THEN argnum ELSE max)

\* str.replace(/c/g, 'cc')
RECURSIVE doubled(_, _)
doubled(str, c) ==
  IF str = << >> THEN << >>
  ELSE (IF str[1] = c THEN << c, c >> ELSE << str[1] >>)
         \o doubled(Tail(str), c)
escapeIdentifierValue(identifier) == doubled(identifier, Backtick)
\* The body of realEscape is not in the source at hand; it is taken to
\* double every single quote.
realEscape(data) == doubled(data, "'")

\* Arguments are numbers or strings.
NumArg(n) == [isNum |-> TRUE, n |-> n, s |-> << >>]
StrArg(str) == [isNum |-> FALSE, n |-> 0, s |-> str]

\* args.forEach(...): an identifier argument that is a number has no
\* replace method.
argsEscaped(args, argIdentifiers) ==
  [i \in DOMAIN args |->
     IF \E k \in DOMAIN argIdentifiers : argIdentifiers[k] = i - 1
       THEN IF args[i].isNum THEN [threw |-> TRUE, s |-> << >>]
            ELSE [threw |-> FALSE, s |-> escapeIdentifierValue(args[i].s)]
     ELSE IF args[i].isNum
       \* a number goes in as it is, and 0 || '' is ''
       THEN [threw |-> FALSE,
             s |-> IF args[i].n = 0 THEN << >> ELSE Decimal(args[i].n)]
     ELSE [threw |-> FALSE, s |-> realEscape(args[i].s)]]

\* query.replace(/%(?!^\d+\$)/g, () => argsEscaped.shift() || ''): the
\* lookahead never matches, so every percent sign takes the next argument.
RECURSIVE replacePercents(_, _)
replacePercents(query, escaped) ==
  IF query = << >> THEN << >>
  ELSE IF query[1] = "%"
    THEN (IF escaped = << >> THEN << >> ELSE escaped[1].s)
           \o replacePercents(Tail(query),
                              IF escaped = << >> THEN << >> ELSE Tail(escaped))
  ELSE << query[1] >> \o replacePercents(Tail(query), escaped)

\* The tokens placeholderEscape can make: '{' + hex digest + '}'.  They
\* stand for a digest with a letter in it and for one of decimal digits
\* only; a token is one piece of a string.
Tokens == {"{3f9a}", "{4071}"}
DecimalTokens == {"{4071}"}

\* placeholderEscape that makes a token at every call.
placeholderEscapeAnew(stored, generated) == generated
\* placeholderEscape(): the stored token, or the one generated now.
placeholderEscape(stored, generated) ==
  IF stored = "" THEN generated ELSE stored

\* query.replace(/%/g, this.placeholderEscape())
addPlaceholderEscape(query, token) ==
  [i \in DOMAIN query |-> IF query[i] = "%" THEN token ELSE query[i]]

NullValue == [kind |-> "null", str |-> << >>, num |-> 0]

\* prepare(query, ...args), or prepare(query, args) when passedAsArray:
\* the value returned and the conflicts listed.
prepareResult(t, args, passedAsArray, token) ==
  LET n == Len(t.phs)
      array == splitQuery(t, n) \o << Elem(t.texts[n + 1]) >>
      splitQueryCount == Len(array)
      scan == scanPlaceholders(array, 2, 0,
                [newQuery |-> << >>, argIdentifiers |-> << >>,
                 argStrings |-> << >>, threw |-> FALSE, key |-> 2])
      query == scan.newQuery \o Text(At(array, scan.key - 2))
      isString(item) ==
        \E k \in DOMAIN scan.argStrings : scan.argStrings[k] = item
      dualUse == SelectSeq(scan.argIdentifiers, isString)
      argsCount == Len(args)
      \* placeholderCount = (splitQueryCount - 1) / 3
      countsDiffer == 3 * argsCount # splitQueryCount - 1
      tooFew == 3 * argsCount < splitQueryCount - 1
      max == maxNumberedPlaceholder(array, 2, 0)
      escaped == argsEscaped(args, scan.argIdentifiers)
  IN
  IF n = 0 THEN [ret |-> StringValue(t.texts[1]), warn |-> << >>,
                 escaped |-> FALSE]
  ELSE IF scan.threw THEN [ret |-> Threw, warn |-> << >>, escaped |-> FALSE]
  ELSE IF dualUse # << >>
    THEN [ret |-> NullValue,
          warn |-> [k \in DOMAIN dualUse |->
                      usedPlaceholders(array, 2, 0, dualUse[k])],
          escaped |-> FALSE]
  ELSE IF countsDiffer /\ splitQueryCount - 1 = 3 /\ passedAsArray
    THEN [ret |-> NullValue, warn |-> << >>, escaped |-> FALSE]
  ELSE IF countsDiffer /\ tooFew /\ (max = 0 \/ argsCount < max)
    THEN [ret |-> StringValue(<< >>), warn |-> << >>, escaped |-> FALSE]
  ELSE IF \E i \in DOMAIN escaped : escaped[i].threw
    THEN [ret |-> Threw, warn |-> << >>, escaped |-> FALSE]
  ELSE [ret |-> StringValue(addPlaceholderEscape(
                              replacePercents(query, escaped), token)),
        warn |-> << >>, escaped |-> TRUE]

\* query.replace(new RegExp(this.placeholderEscape(), 'g'), '%'): the token
\* is the pattern as it stands.  '{' followed by decimal digits and '}' is
\* a quantifier with nothing to repeat, which the RegExp constructor turns
\* down with a SyntaxError; with a letter among the digits the braces
\* stand for themselves.
removePlaceholderEscape(query, token) ==
  IF token \in DecimalTokens THEN Threw
  ELSE StringValue([i \in DOMAIN query |->
                      IF query[i] = token THEN "%" ELSE query[i]])

\* Queries handed to addPlaceholderEscape and removePlaceholderEscape: %,
\* a%b, 5%%, x and the empty string.
EscapeQueries == { << "%" >>, << "a", "%", "b" >>, << "5", "%", "%" >>,
                   << "x" >>, << >> }
NoOrigin == [fed |-> FALSE, q |-> << >>]

\* ------------------------------------------------ arguments of CRUD calls
\* The data (or where) argument of a call: an array or a plain object of at
\* most MaxCols values.  A value is null or the number 5.
\* Object.entries names the entries of an array 0, 1 and those of the
\* objects used here a, b.
CrudValues == {Null, "5"}
DataArgs == [isArray : BOOLEAN,
             values : UNION {[1..n -> CrudValues] : n \in 0..MaxCols}]
NoData == [isArray |-> FALSE, values |-> << >>]
FieldName(data, k) ==
  IF data.isArray THEN << "0", "1" >>[k] ELSE << "a", "b" >>[k]

\* The format argument: null, '%d' or an array of formats.
FormatArgs == {Null, "%d", << "%d" >>, << "%d", "%s" >>}
WhereFormatArgs == {Null, << "%d" >>}

\* A statement of insert, replace, update or delete, before prepare: its
\* verb, the assignments or VALUES formats column by column, and the WHERE
\* predicates in the order they are joined with AND.
Sql(verb, cols, where) == [verb |-> verb, cols |-> cols, where |-> where]
NoSql == Sql("", << >>, << >>)

\* ------------------------------------------- arguments of stripInvalidText
\* The length of a column: false, or its type and number.
NoLength == [type |-> "none", length |-> 0]
ByteLength(n) == [type |-> "byte", length |-> n]
\* A value with its charset and length; a value that is not a string is
\* the number 5.
StripValue(isString, chars, charset, length) ==
  [isString |-> isString, chars |-> chars, charset |-> charset,
   length |-> length]
Accented == << "E1", "A9", "A9", "C3", "A9" >>
StripValues ==
  { StripValue(FALSE, << "5" >>, "utf8mb4", ByteLength(MaxBytes)),
    StripValue(TRUE, Accented, "false", ByteLength(MaxBytes)),
    StripValue(TRUE, Accented, "utf8mb4", ByteLength(MaxBytes)),
    StripValue(TRUE, << "HS", "LS" >>, "utf8mb4", ByteLength(MaxBytes)),
    StripValue(TRUE, << "a", "a", "a", "a" >>, "latin1",
               ByteLength(MaxBytes)),
    StripValue(TRUE, Accented, "big5", NoLength),
    StripValue(TRUE, Accented, "big5", ByteLength(MaxBytes)) }
StripData == UNION {[1..n -> StripValues] : n \in 0..MaxValues}

\* --------------------------------------------------- values of getResults
\* What getResults returns: null, a sequence of rows, or rows under keys.
Rows(kind, rows, keyed) == [kind |-> kind, rows |-> rows, keyed |-> keyed]
NoRows == Rows("none", << >>, << >>)

\* The queries handed to prepare.
PrepareQueries ==
  {
    \* SELECT 1
    Template(<< << "S", "E", "L", "E", "C", "T", " ", "1" >> >>, << >>),
    \* SELECT * FROM t WHERE id = %d AND name = %s
    Template(<< << "S", "E", "L", "E", "C", "T", " ", "*", " ", "F", "R", "O",
                  "M", " ", "t", " ", "W", "H", "E", "R", "E", " ", "i", "d",
                  " ", "=", " " >>,
               << " ", "A", "N", "D", " ", "n", "a", "m", "e", " ", "=", " " >>,
               << >> >>,
             << Ph(0, "d"), Ph(0, "s") >>),
    \* a=%d b=%s
    Template(<< << "a", "=" >>,
               << " ", "b", "=" >>,
               << >> >>,
             << Ph(0, "d"), Ph(0, "s") >>),
    \* a=%d b=%s ok
    Template(<< << "a", "=" >>,
               << " ", "b", "=" >>,
               << " ", "o", "k" >> >>,
             << Ph(0, "d"), Ph(0, "s") >>),
    \* x %s
    Template(<< << "x", " " >>,
               << >> >>,
             << Ph(0, "s") >>),
    \* n=%d
    Template(<< << "n", "=" >>,
               << >> >>,
             << Ph(0, "d") >>),
    \* s %1$i w %1$s
    Template(<< << "s", " " >>,
               << " ", "w", " " >>,
               << >> >>,
             << Ph(1, "i"), Ph(1, "s") >>),
    \* %i x %1$s
    Template(<< << >>,
               << " ", "x", " " >>,
               << >> >>,
             << Ph(0, "i"), Ph(1, "s") >>),
    \* o %2$i x %s
    Template(<< << "o", " " >>,
               << " ", "x", " " >>,
               << >> >>,
             << Ph(2, "i"), Ph(0, "s") >>),
    \* a %1$s b %2$s
    Template(<< << "a", " " >>,
               << " ", "b", " " >>,
               << >> >>,
             << Ph(1, "s"), Ph(2, "s") >>),
    \* a %d b %d c %d
    Template(<< << "a", " " >>,
               << " ", "b", " " >>,
               << " ", "c", " " >>,
               << >> >>,
             << Ph(0, "d"), Ph(0, "d"), Ph(0, "d") >>),
    \* v %f
    Template(<< << "v", " " >>,
               << >> >>,
             << Ph(0, "f") >>)
  }

\* The values handed to prepare, and the argument lists made of them.
ArgValues == { NumArg(5), StrArg(<< "5", "0", "%" >>),
              StrArg(<< "O", "'", "B", "r", "i", "e", "n" >>) }
ArgLists == UNION {[1..n -> ArgValues] : n \in 0..MaxArgs}

\* ------------------------------------------------------------------ bail
\* bail(message, errorCode) called while the handle is h; WPError tells
\* whether global.WPError is defined.
bail(h, message, errorCode, WPError) ==
  IF showErrors
    THEN IF h # Null
           THEN [outcome |-> "exit", error |-> error]
           ELSE [outcome |-> "threw", error |-> error]
    ELSE [outcome |-> "false",
          error |-> IF WPError THEN <<errorCode, message>> ELSE <<message>>]

BailEntry(h, b) ==
  << IF showErrors THEN "fatal" ELSE "nonfatal", h, b.outcome >>

\* ------------------------------------------------------------- dbConnect
\* What the driver and the environment answer to one dbConnect call.
ConnAnswers(allowBail) ==
  { a \in [conn : ConnOutcomes, dbErrorPage : BOOLEAN, WPError : BOOLEAN] :
      /\ a.dbErrorPage => (allowBail /\ a.conn \in ConnectRejects)
      /\ a.WPError => (allowBail /\ a.conn \in ConnectRejects
                       /\ ~a.dbErrorPage /\ ~showErrors) }

\* dbConnect that treats a credential rejection as final.
dbConnectCredentialFatal(allowBail, a) ==
  IF a.conn \in CreateRejects \/ a.conn = "connectRejectCred"
    THEN [ret |-> IF allowBail THEN "false" ELSE "threw", dbh |-> Null,
          fresh |-> FALSE, ready |-> ready, hasConnected |-> hasConnected,
          error |-> error, steps |-> {}, bail |-> <<>>]
  ELSE IF a.conn \in ConnectRejects
    THEN [ret |-> "false", dbh |-> Null, fresh |-> FALSE, ready |-> ready,
          hasConnected |-> hasConnected, error |-> error, steps |-> {},
          bail |-> <<>>]
  ELSE [ret |-> "undef", dbh |-> "conn", fresh |-> TRUE, ready |-> ready,
        hasConnected |-> hasConnected, error |-> error, steps |-> {},
        bail |-> <<>>]

\* dbConnect(allowBail), were the branch that marks the instance ready
\* taken without looking at the handle.
dbConnectReadyWithoutHandle(allowBail, a) ==
  LET same == [ret |-> "undef", dbh |-> dbh, fresh |-> FALSE,
               ready |-> ready, hasConnected |-> hasConnected,
               error |-> error, steps |-> {}, bail |-> <<>>]
  IN
  IF a.conn \in CreateRejects
    THEN [same EXCEPT !.ret = IF allowBail THEN "false" ELSE "threw"]
  ELSE IF a.conn \in ConnectRejects
    THEN LET h == Null
             b == bail(h, ConnectFailMessage, "db_connect_fail", a.WPError)
         IN IF allowBail
              THEN IF a.dbErrorPage
                     THEN [same EXCEPT !.dbh = h, !.ret = "exit"]
                     ELSE [same EXCEPT !.dbh = h, !.error = b.error,
                             !.bail = BailEntry(h, b),
                             !.ret = b.outcome]
            ELSE [same EXCEPT !.dbh = h, !.hasConnected = TRUE,
                    !.ready = TRUE,
                    !.steps = {"setCharset", "setSqlMode", "select"}
                              \cup (IF hasConnected THEN {}
                                    ELSE {"initCharset"}),
                    !.ret = "true"]
  ELSE [same EXCEPT !.dbh = "conn", !.fresh = TRUE]

\* dbConnect(allowBail) with the answers a.
dbConnect(allowBail, a) ==
  LET same == [ret |-> "undef", dbh |-> dbh, fresh |-> FALSE,
               ready |-> ready, hasConnected |-> hasConnected,
               error |-> error, steps |-> {}, bail |-> <<>>]
  IN
  IF a.conn \in CreateRejects
    THEN [same EXCEPT !.ret = IF allowBail THEN "false" ELSE "threw"]
  ELSE IF a.conn \in ConnectRejects
    THEN LET h == Null
             b == bail(h, ConnectFailMessage, "db_connect_fail", a.WPError)
         IN IF allowBail
              THEN IF a.dbErrorPage
                     THEN [same EXCEPT !.dbh = h, !.ret = "exit"]
                     ELSE [same EXCEPT !.dbh = h, !.error = b.error,
                             !.bail = BailEntry(h, b),
                             !.ret = b.outcome]
            ELSE IF h # Null
              THEN [same EXCEPT !.dbh = h, !.hasConnected = TRUE,
                      !.ready = TRUE,
                      !.steps = {"setCharset", "setSqlMode", "select"}
                                \cup (IF hasConnected THEN {}
                                      ELSE {"initCharset"}),
                      !.ret = "true"]
              ELSE [same EXCEPT !.dbh = h, !.ret = "false"]
  ELSE [same EXCEPT !.dbh = "conn", !.fresh = TRUE]

\* ----------------------------------------------------------------- flush
\* flush that leaves the rows of the last query in place.
flushKeepsRows ==
  [lastResult |-> lastResult, lastQuery |-> Null, rowsAffected |-> 0,
   numRows |-> 0, lastError |-> "",
   result |-> IF Truthy(result) THEN Null ELSE result]

\* flush that leaves the last error in place.
flushKeepsError ==
  [lastResult |-> << >>, lastQuery |-> Null, rowsAffected |-> 0,
   numRows |-> 0, lastError |-> lastError,
   result |-> IF Truthy(result) THEN Null ELSE result]

\* flush(): the fields it resets; a truthy result is freed and dropped.
flush ==
  [lastResult |-> << >>, lastQuery |-> Null, rowsAffected |-> 0,
   numRows |-> 0, lastError |-> "",
   result |-> IF Truthy(result) THEN Null ELSE result]

\* ------------------------------------------------------------ printError
\* printError without the suppressErrors test.
printErrorIgnoresSuppress(DIEONDBERROR) ==
  IF ~showErrors THEN "false"
  ELSE IF DIEONDBERROR THEN "threw"
  ELSE "undef"

\* Outcome of printError(str) for a non-empty str; DIEONDBERROR stands for
\* process.env.IS_MULTISITE && process.env.DIEONDBERROR.
printError(DIEONDBERROR) ==
  IF suppressErrors THEN "false"
  ELSE IF ~showErrors THEN "false"
  ELSE IF DIEONDBERROR THEN "threw"
  ELSE "undef"

\* No call is in progress, the process runs, and one more query() (at most
\* two _doQuery calls) keeps numQueries within its bound.
Idle ==
  /\ pc = "idle" /\ proc = "running" /\ awaiting = "none"
  /\ numQueries + 2 <= MaxQueries

\* A statement is a sequence of words with one space between them.  The word
\* Ticked stands for the name t between backticks, which a string of this
\* module cannot hold.  The statements have no parentheses, no trailing
\* blanks and none of the optional modifiers (LOW_PRIORITY, IGNORE, ...).
Ticked == "<t>"
Words == {"SELECT", "FROM", "UPDATE", "SHOW", "TABLES", "WHERE", "Name='t'",
          "LIKE", "'t%'", "TRUNCATE", "t", Ticked}
Statements == UNION {[1..n -> Words] : n \in 1..MaxWords}

NoStripped == [ret |-> "none", charset |-> "none"]

InitInstance ==
  /\ envSeen = {}
  /\ proc = "running" /\ exitFrom = "none"
  /\ showErrors = FALSE /\ suppressErrors = FALSE /\ ready = FALSE
  /\ hasConnected = FALSE /\ isMySQL = FALSE
  /\ dbh = Null /\ error = << >> /\ checkCurrentQuery = TRUE
  /\ lastError = "" /\ lastQuery = "" /\ lastResult = NullResult
  /\ numRows = 0 /\ rowsAffected = 0 /\ insertId = 0 /\ numQueries = 0
  /\ result = Null
  /\ dbhErrno = 0 /\ dbhError = "" /\ dbhAffectedRows = 0 /\ dbhInsertId = 0
  /\ pc = "idle" /\ caller = "top" /\ op = "none" /\ ret = "none"
  /\ retNum = 0
  /\ curQuery = "" /\ execs = 0 /\ sends = 0 /\ lossDetected = FALSE
  /\ drvError = "" /\ hadRows = FALSE
  /\ ccAllowBail = TRUE /\ tries = 0 /\ attempts = 0 /\ delays = 0
  /\ ccRet = "none" /\ probeFailed = FALSE
  /\ lastAttempt = "none" /\ anyPhysOk = FALSE
  /\ bailLog = << >> /\ setupSteps = {}
  /\ tableCharset = [k \in TableKeys |-> "unset"]
  /\ colMeta = [k \in TableKeys |-> "unset"]
  /\ introspected = {}
  /\ gtcTable = "" /\ gtcCols = << >> /\ gtcRet = "none"
  /\ gtcIssued = FALSE /\ gtcAgain = FALSE
  /\ basePrefix = << >> /\ prefix = << >> /\ blogId = 0 /\ siteId = 0
  /\ tableNames = [t \in AllTables |-> << >>]
  /\ pfxPrefix = << >> /\ pfxSetNames = FALSE /\ pfxBlogId = 0
  /\ pfxRet = NoValue
  /\ prepQuery = Template(<< << >> >>, << >>) /\ prepArgs = << >>
  /\ prepArray = FALSE /\ prepRet = NoValue /\ prepWarn = << >>
  /\ _placeholder = "" /\ tokenUsed = ""
  /\ escQuery = << >> /\ escOrigin = NoOrigin /\ escRet = NoValue
  /\ crudData = NoData /\ crudFormat = Null
  /\ crudWhere = NoData /\ crudWhereFormat = Null
  /\ crudRet = "none" /\ crudSql = NoSql /\ crudValues = << >>
  /\ awaiting = "none" /\ grOutput = "none" /\ grRet = NoRows
  /\ sitData = << >> /\ sitOut = << >> /\ sitRet = "none"
  /\ sitCalls = 0 /\ sitParts = {}
  /\ setValue = FALSE
  /\ gtqRet = "none" /\ sifqRet = NoStripped

\* A single-site process: neither flag is in the environment.
Init ==
  /\ InitInstance /\ IS_MULTISITE = FALSE /\ MULTISITE = FALSE
  /\ gtqQuery = << >> /\ setName = "off"

\* The same, with the arguments of set calls observed.
InitObserved ==
  /\ InitInstance /\ IS_MULTISITE = FALSE /\ MULTISITE = FALSE
  /\ gtqQuery = << >> /\ setName = "none"

\* The environment is fixed when the process starts.
InitEnv ==
  /\ InitInstance /\ IS_MULTISITE \in BOOLEAN /\ MULTISITE \in BOOLEAN
  /\ gtqQuery = << >> /\ setName = "off"

\* A statement is at hand for getTableFromQuery and
\* stripInvalidTextFromQuery.
InitStatement ==
  /\ InitInstance /\ IS_MULTISITE = FALSE /\ MULTISITE = FALSE
  /\ gtqQuery \in Statements /\ setName = "off"

\* The observation variables describe one call; a new call starts them over.
ResetQueryHist ==
  /\ curQuery' = "" /\ execs' = 0 /\ sends' = 0
  /\ lossDetected' = FALSE /\ drvError' = "" /\ hadRows' = FALSE

ResetCcHist ==
  /\ caller' = "top" /\ ccAllowBail' = TRUE
  /\ tries' = 0 /\ attempts' = 0 /\ delays' = 0
  /\ ccRet' = "none" /\ probeFailed' = FALSE
  /\ lastAttempt' = "none" /\ anyPhysOk' = FALSE

\* A fresh handle has reported nothing yet.
FreshHandle ==
  /\ dbhErrno' = 0 /\ dbhError' = ""
  /\ dbhAffectedRows' = 0 /\ dbhInsertId' = 0

\* ------------------------------------------------------------------- set
\* set(name, value) without checkCurrentQuery among the protected members.
ProtectedButCheck == {"colMeta", "tableCharset",
                      "allowUnsafeUnquotedParameters"}
\* set(name, value): protected members keep their value.
ProtectedMembers == {"colMeta", "tableCharset", "checkCurrentQuery",
                     "allowUnsafeUnquotedParameters"}

\* The names set is called with.  Nothing in the class writes
\* allowUnsafeUnquotedParameters, which the model keeps as a definition.
SetNames == {"ready", "showErrors", "suppressErrors", "checkCurrentQuery",
             "colMeta", "tableCharset", "allowUnsafeUnquotedParameters"}

SetField(name, value, field, old) ==
  IF name \in ProtectedMembers THEN old
  ELSE IF name = field THEN value ELSE old

set ==
  /\ Idle
  /\ UNCHANGED << introspected, gtcTable, gtcCols, gtcRet, gtcIssued,
                  gtcAgain, prefixVars, prepareVars, escapeVars, crudVars,
                  awaiting, resultsVars, stripVars, tableVars >>
  /\ \E name \in SetNames, value \in BOOLEAN :
       /\ setName' = IF setName = "off" THEN "off" ELSE name
       /\ setValue' = IF setName = "off" THEN FALSE ELSE value
       /\ colMeta' = SetField(name, value, "colMeta", colMeta)
       /\ tableCharset' = SetField(name, value, "tableCharset", tableCharset)
       /\ ready' = SetField(name, value, "ready", ready)
       /\ showErrors' = SetField(name, value, "showErrors", showErrors)
       /\ suppressErrors' =
            SetField(name, value, "suppressErrors", suppressErrors)
       /\ checkCurrentQuery' =
            SetField(name, value, "checkCurrentQuery", checkCurrentQuery)
  /\ op' = "set" /\ ret' = "undef" /\ retNum' = 0
  /\ ResetQueryHist /\ ResetCcHist
  /\ bailLog' = << >> /\ setupSteps' = {} /\ envSeen' = {}
  /\ UNCHANGED << proc, exitFrom, hasConnected, isMySQL, dbh, error,
                  resultVars, insertId, numQueries, driverVars, pc >>

\* ------------------------------------------------------- dbConnect(true)
\* The call the constructor makes (allowBail defaults to true).
dbConnectTrue ==
  /\ NoSet
  /\ Idle
  /\ UNCHANGED extVars
  /\ \E a \in ConnAnswers(TRUE) :
       LET d == dbConnect(TRUE, a)
           o == a.conn
       IN
       /\ envSeen' = Seen("dbErrorPage", a.dbErrorPage)
                      \cup Seen("WPError", a.WPError)
       /\ isMySQL' = TRUE
       /\ dbh' = d.dbh
       /\ ready' = d.ready
       /\ hasConnected' = d.hasConnected
       /\ error' = d.error
       /\ setupSteps' = d.steps
       /\ bailLog' = d.bail
       /\ ret' = d.ret
       /\ proc' = IF d.ret = "exit" THEN "exited" ELSE proc
       /\ exitFrom' = IF d.ret = "exit" THEN "dbConnect" ELSE exitFrom
       /\ IF d.fresh THEN FreshHandle ELSE UNCHANGED driverVars
       /\ caller' = "top" /\ ccAllowBail' = TRUE
       /\ tries' = 0 /\ attempts' = 0 /\ delays' = 0
       /\ ccRet' = "none" /\ probeFailed' = FALSE
       /\ lastAttempt' = o /\ anyPhysOk' = (o = "ok")
  /\ op' = "dbConnect" /\ retNum' = 0
  /\ ResetQueryHist
  /\ UNCHANGED << showErrors, suppressErrors, checkCurrentQuery,
                  resultVars, insertId, numQueries, pc >>

\* ----------------------------------------------------------------- close
close ==
  /\ NoSet
  /\ Idle
  /\ UNCHANGED extVars
  /\ \E closed \in {"true", "false", "threw"} :
       IF dbh # Null /\ closed = "true"
         THEN /\ dbh' = Null /\ ready' = FALSE /\ hasConnected' = FALSE
              /\ ret' = "true"
         ELSE /\ UNCHANGED << dbh, ready, hasConnected >>
              /\ ret' = "false"
  /\ op' = "close" /\ retNum' = 0
  /\ ResetQueryHist /\ ResetCcHist
  /\ bailLog' = << >> /\ setupSteps' = {} /\ envSeen' = {}
  /\ UNCHANGED << proc, exitFrom, showErrors, suppressErrors, isMySQL,
                  error, checkCurrentQuery, resultVars, insertId, numQueries,
                  driverVars, pc >>

\* ------------------------------------------------------- checkConnection
\* checkConnection returns r to whoever awaits it.  query() continues
\* synchronously: a truthy answer starts the second _doQuery, a falsy one
\* clears insertId and returns false.
ccReturn(r) ==
  /\ ccRet' = r
  /\ proc' = IF r = "exit" THEN "exited" ELSE proc
  /\ exitFrom' = IF r = "exit" THEN "checkConnection" ELSE exitFrom
  /\ IF caller = "top"
       THEN pc' = "idle" /\ ret' = r /\ insertId' = insertId
       ELSE IF Truthy(r)
         THEN pc' = "q_exec2" /\ ret' = ret /\ insertId' = insertId
       ELSE IF r \in {"false", "undef"}
         THEN pc' = "idle" /\ ret' = "false" /\ insertId' = 0
       ELSE pc' = "idle" /\ ret' = r /\ insertId' = insertId

\* Entry of checkConnection up to its first await: the probe when there is a
\* handle, the first reconnect attempt when there is none.
ccEnter(allowBail, who) ==
  /\ caller' = who
  /\ ccAllowBail' = allowBail
  /\ attempts' = 0 /\ delays' = 0 /\ ccRet' = "none"
  /\ lastAttempt' = "none" /\ anyPhysOk' = FALSE
  /\ IF dbh # Null
       THEN pc' = "cc_probe" /\ tries' = 0 /\ probeFailed' = FALSE
       ELSE pc' = "cc_attempt" /\ tries' = 1 /\ probeFailed' = TRUE

checkConnectionStart ==
  /\ NoSet
  /\ Idle
  /\ UNCHANGED extVars
  /\ \E allowBail \in BOOLEAN : ccEnter(allowBail, "top")
  /\ op' = "checkConnection" /\ ret' = "none" /\ retNum' = 0
  /\ ResetQueryHist
  /\ bailLog' = << >> /\ setupSteps' = {} /\ envSeen' = {}
  /\ UNCHANGED << proc, exitFrom, instVars, dbh, resultVars, insertId,
                  numQueries, driverVars >>

\* The answer to 'DO 1'.
checkConnectionProbe ==
  /\ NoSet
  /\ pc = "cc_probe" /\ proc = "running"
  /\ UNCHANGED extVars
  /\ \E alive \in BOOLEAN :
       IF alive
         THEN /\ ccReturn("true")
              /\ dbhErrno' = 0 /\ dbhError' = ""
              /\ UNCHANGED << tries, probeFailed >>
         ELSE /\ pc' = "cc_attempt" /\ tries' = 1 /\ probeFailed' = TRUE
              /\ dbhErrno' = ErrnoGoneAway /\ dbhError' = GoneText
              /\ UNCHANGED << ccRet, proc, exitFrom, ret, insertId >>
  /\ UNCHANGED << envSeen, instVars, dbh, resultVars, numQueries,
                  dbhAffectedRows, dbhInsertId, caller, op, retNum,
                  queryHist, ccAllowBail, attempts, delays, lastAttempt,
                  anyPhysOk, bailLog, setupSteps >>

\* One iteration of the retry loop up to the delay: dbConnect(false).
checkConnectionAttempt ==
  /\ NoSet
  /\ pc = "cc_attempt" /\ proc = "running"
  /\ UNCHANGED extVars
  /\ \E WP_DEBUG \in (IF reconnectRetries = tries THEN BOOLEAN
                        ELSE {FALSE}) :
     IF reconnectRetries = tries /\ WP_DEBUG
       THEN \* originalErrorReporting is not in scope: ReferenceError
            /\ ccReturn("threw")
            /\ envSeen' = envSeen \cup {"WP_DEBUG"}
            /\ UNCHANGED << isMySQL, dbh, ready, hasConnected, error,
                            setupSteps, bailLog, attempts, lastAttempt,
                            anyPhysOk, driverVars >>
       ELSE \E a \in ConnAnswers(FALSE) :
            LET d == dbConnect(FALSE, a)
                o == a.conn
            IN
            /\ envSeen' = envSeen
            /\ attempts' = attempts + 1
            /\ isMySQL' = TRUE
            /\ dbh' = d.dbh
            /\ ready' = d.ready
            /\ hasConnected' = d.hasConnected
            /\ error' = d.error
            /\ setupSteps' = d.steps
            /\ bailLog' = d.bail
            /\ lastAttempt' = o
            /\ anyPhysOk' = (anyPhysOk \/ o = "ok")
            /\ IF d.fresh THEN FreshHandle ELSE UNCHANGED driverVars
            /\ IF d.ret = "threw"
                 THEN ccReturn("threw")
               ELSE IF Truthy(d.ret)
                 THEN \* if (originalErrorReporting): ReferenceError
                      ccReturn("threw")
               ELSE /\ pc' = "cc_delay"
                    /\ UNCHANGED << ccRet, proc, exitFrom, ret, insertId >>
  /\ UNCHANGED << showErrors, suppressErrors, checkCurrentQuery,
                  resultVars, numQueries, caller, op, retNum, queryHist,
                  ccAllowBail, tries, delays, probeFailed >>

\* What checkConnection does once the loop is over.
EndAnswers(allowBail) ==
  { e \in [TEMPLATE_REDIRECT : BOOLEAN, WPError : BOOLEAN] :
      e.WPError => (~e.TEMPLATE_REDIRECT /\ allowBail /\ ~showErrors) }

\* The end of checkConnection without the allowBail test.
checkConnectionEndNoOptOut(allowBail, e) ==
  LET b == bail(dbh, ReconnectFailMessage, "db_connect_fail", e.WPError) IN
  IF e.TEMPLATE_REDIRECT
    THEN [ret |-> "false", error |-> error, bail |-> << >>]
  ELSE [ret |-> IF b.outcome = "false" THEN "undef" ELSE b.outcome,
        error |-> b.error, bail |-> BailEntry(dbh, b)]

checkConnectionEnd(allowBail, e) ==
  LET b == bail(dbh, ReconnectFailMessage, "db_connect_fail", e.WPError) IN
  IF e.TEMPLATE_REDIRECT
    THEN [ret |-> "false", error |-> error, bail |-> << >>]
  ELSE IF ~allowBail
    THEN [ret |-> "false", error |-> error, bail |-> << >>]
  ELSE [ret |-> IF b.outcome = "false" THEN "undef" ELSE b.outcome,
        error |-> b.error, bail |-> BailEntry(dbh, b)]

\* A retry loop without its bound.
loopGoesOnAlways(t) == TRUE

\* The loop test of checkConnection: tries <= this.reconnectRetries.
loopGoesOn(t) == t <= reconnectRetries

\* The timer fires; the loop goes on or ends.
checkConnectionDelay ==
  /\ NoSet
  /\ pc = "cc_delay" /\ proc = "running"
  /\ UNCHANGED extVars
  /\ delays' = delays + 1
  /\ tries' = tries + 1
  /\ IF loopGoesOn(tries + 1)
       THEN /\ pc' = "cc_attempt"
            /\ UNCHANGED << ccRet, proc, exitFrom, ret, insertId, error,
                            bailLog, envSeen >>
       ELSE \E a \in EndAnswers(ccAllowBail) :
            LET e == checkConnectionEnd(ccAllowBail, a) IN
            /\ ccReturn(e.ret)
            /\ error' = e.error
            /\ bailLog' = e.bail
            /\ envSeen' = envSeen
                 \cup Seen("TEMPLATE_REDIRECT", a.TEMPLATE_REDIRECT)
                 \cup Seen("WPError", a.WPError)
  /\ UNCHANGED << showErrors, suppressErrors, ready, hasConnected,
                  isMySQL, checkCurrentQuery, dbh, resultVars, numQueries,
                  driverVars, caller, op, retNum, queryHist, ccAllowBail,
                  attempts, probeFailed, lastAttempt, anyPhysOk,
                  setupSteps >>

\* ----------------------------------------------------------------- query
\* The driver runs a statement on the handle and leaves its outcome there.
DriverOutcomes(query) ==
  [kind : {"ok"},
   affected : IF IsDml(query) THEN 0..MaxRows ELSE {0},
   id : IF IsInsert(query) THEN 0..MaxId ELSE {0},
   text : {""}]
  \cup [kind : {"err"}, affected : {0}, id : {0}, text : ErrorTexts]
  \cup [kind : {"gone"}, affected : {0}, id : {0}, text : {GoneText}]

\* _doQuery(query): the statement goes to the handle if there is one, and
\* numQueries counts the call either way.
doQuery(x) ==
  /\ IF dbh # Null
       THEN /\ result' = IF x.kind = "ok" THEN "object" ELSE "false"
            /\ dbhErrno' = CASE x.kind = "ok" -> 0
                             [] x.kind = "gone" -> ErrnoGoneAway
                             [] OTHER -> 1064
            /\ dbhError' = x.text
            /\ dbhAffectedRows' = x.affected
            /\ dbhInsertId' = x.id
            /\ sends' = sends + 1
       ELSE UNCHANGED << result, driverVars, sends >>
  /\ numQueries' = numQueries + 1
  /\ execs' = execs + 1

\* query() on an instance that is not ready, were it to record the
\* statement before returning.
queryNotReadyRecording(query, check) ==
  /\ checkCurrentQuery' = TRUE
  /\ ret' = "false" /\ pc' = "idle"
  /\ lastQuery' = query
  /\ UNCHANGED << lastError, lastResult, numRows, rowsAffected, result,
                  insertId >>

\* query() on an instance that is not ready, were it to leave the skip of
\* text validation as armed.
queryNotReadyKeepsSkip(query, check) ==
  /\ checkCurrentQuery' = check
  /\ ret' = "false" /\ pc' = "idle"
  /\ UNCHANGED << resultVars, insertId >>

\* query() on an instance that is not ready: if (!this.ready) { ... }.
queryNotReady(query, check) ==
  /\ checkCurrentQuery' = TRUE
  /\ ret' = "false" /\ pc' = "idle"
  /\ UNCHANGED << resultVars, insertId >>

\* query(query) up to the first await, entered with checkCurrentQuery
\* holding check.
queryBegin(query, check) ==
  /\ curQuery' = query
  /\ hadRows' = (ready /\ query # ""
                  /\ lastResult \notin {<< >>, NullResult})
  /\ IF ~ready
       THEN queryNotReady(query, check)
     ELSE IF query = ""
       THEN /\ insertId' = 0
            /\ ret' = "false" /\ pc' = "idle"
            /\ checkCurrentQuery' = check
            /\ UNCHANGED resultVars
     ELSE LET f == flush
              stripped == IF check /\ ~checkAscii(query)
                            THEN stripInvalidTextFromQuery(query)
                          ELSE query
          IN
          /\ lastResult' = f.lastResult
          /\ rowsAffected' = f.rowsAffected
          /\ numRows' = f.numRows
          /\ result' = f.result
          /\ IF stripped = "threw"
               THEN /\ lastQuery' = f.lastQuery
                    /\ lastError' = f.lastError
                    /\ ret' = "threw" /\ pc' = "idle"
                    /\ checkCurrentQuery' = check
                    /\ UNCHANGED insertId
             ELSE IF stripped # query
               THEN /\ insertId' = 0
                    /\ lastQuery' = query
                    /\ lastError' = InvalidDataText
                    /\ ret' = "false" /\ pc' = "idle"
                    /\ checkCurrentQuery' = check
             ELSE /\ checkCurrentQuery' = TRUE
                  /\ lastQuery' = query
                  /\ lastError' = f.lastError
                  /\ ret' = "none" /\ pc' = "q_exec1"
                  /\ UNCHANGED insertId
  /\ retNum' = 0
  /\ execs' = 0 /\ sends' = 0 /\ lossDetected' = FALSE /\ drvError' = ""
  /\ ResetCcHist
  /\ bailLog' = << >> /\ setupSteps' = {} /\ envSeen' = {}
  /\ UNCHANGED << proc, exitFrom, showErrors, suppressErrors, ready,
                  hasConnected, isMySQL, dbh, error, numQueries,
                  driverVars >>

\* A call of query(query).
queryStart ==
  /\ NoSet
  /\ Idle
  /\ UNCHANGED extVars
  /\ \E query \in Queries : queryBegin(query, checkCurrentQuery)
  /\ op' = "query"

\* The first _doQuery returns; query() looks for a lost connection.
queryExec1 ==
  /\ NoSet
  /\ pc = "q_exec1" /\ proc = "running"
  /\ UNCHANGED extVars
  /\ \E x \in DriverOutcomes(curQuery) :
       /\ doQuery(x)
       /\ IF dbh = Null \/ dbhErrno' = ErrnoGoneAway
            THEN /\ lossDetected' = TRUE
                 /\ ccEnter(TRUE, "query")
            ELSE /\ lossDetected' = FALSE
                 /\ pc' = "q_finish"
                 /\ UNCHANGED ccHist
  /\ UNCHANGED << envSeen, proc, exitFrom, instVars, dbh, lastError, lastQuery,
                  lastResult, numRows, rowsAffected, insertId, op, ret,
                  retNum, curQuery, drvError, hadRows, bailLog,
                  setupSteps >>

\* The second _doQuery, after checkConnection said the connection is up.
queryExec2 ==
  /\ NoSet
  /\ pc = "q_exec2" /\ proc = "running"
  /\ UNCHANGED extVars
  /\ \E x \in DriverOutcomes(curQuery) : doQuery(x)
  /\ pc' = "q_finish"
  /\ UNCHANGED << envSeen, proc, exitFrom, instVars, dbh, lastError, lastQuery,
                  lastResult, numRows, rowsAffected, insertId, op, ret,
                  retNum, curQuery, lossDetected, drvError, hadRows, ccHist,
                  bailLog, setupSteps >>

\* The rows a SELECT can bring.  A row is known by the statement it
\* answers, its position and the value of its first column, which is 7 or
\* the string length.
RowKeys == {"7", "length"}
ResultSets == UNION {[1..n -> RowKeys] : n \in 0..MaxRows}

\* this.lastResult[numRows] = row, for each row.
StoreRows(old, rows) ==
  [i \in 1..(IF Len(rows) > Len(old) THEN Len(rows) ELSE Len(old)) |->
     IF i <= Len(rows) THEN rows[i] ELSE old[i]]

\* The rest of query(): the error check and the return value.
queryFinish ==
  /\ NoSet
  /\ pc = "q_finish" /\ proc = "running"
  /\ UNCHANGED extVars
  /\ pc' = "idle"
  /\ LET err == IF dbh # Null THEN dbhError ELSE NoHandleText IN
     /\ lastError' = err
     /\ drvError' = err
     /\ IF err # ""
          THEN /\ insertId' = IF insertId # 0 /\ IsInsert(curQuery) THEN 0
                              ELSE insertId
               /\ \E DIEONDBERROR \in BOOLEAN :
                    /\ ret' = IF printError(DIEONDBERROR) = "threw"
                              THEN "threw" ELSE "false"
                    /\ envSeen' = Seen("DIEONDBERROR", DIEONDBERROR)
               /\ UNCHANGED << lastResult, numRows, rowsAffected, retNum,
                               sends >>
        ELSE IF IsDdl(curQuery)
          THEN /\ ret' = result
               /\ UNCHANGED << lastResult, numRows, rowsAffected, retNum,
                               sends, insertId, envSeen >>
        ELSE IF IsDml(curQuery)
          THEN /\ rowsAffected' = dbhAffectedRows
               /\ insertId' = IF IsInsert(curQuery) THEN dbhInsertId
                              ELSE insertId
               /\ ret' = "number" /\ retNum' = dbhAffectedRows
               /\ UNCHANGED << lastResult, numRows, sends, envSeen >>
        ELSE \E results \in ResultSets :
               /\ lastResult' =
                    StoreRows(lastResult,
                              [i \in DOMAIN results |->
                                 << curQuery, i, results[i] >>])
               /\ numRows' = Len(results)
               /\ sends' = sends + 1
               /\ ret' = "number" /\ retNum' = Len(results)
               /\ UNCHANGED << rowsAffected, insertId, envSeen >>
  /\ UNCHANGED << proc, exitFrom, instVars, dbh, lastQuery, result,
                  numQueries, driverVars, op, curQuery, execs, lossDetected,
                  hadRows, ccHist, bailLog, setupSteps >>

\* ------------------------------------------------------ getTableCharset
\* getTableCharset(table).  On a cache miss it calls getResults without
\* awaiting it: getResults and query() run up to their first await (if the
\* instance is ready the statement is passed to _doQuery), then
\* getTableCharset iterates the promise it got, which throws a TypeError.
\* The query() call goes on in the background.
getTableCharset ==
  /\ NoSet
  /\ Idle
  /\ UNCHANGED << prefixVars, prepareVars, escapeVars, crudVars, awaiting,
                  resultsVars, stripVars, tableVars >>
  /\ \E table \in Tables, columns \in Schemas :
       LET tableKey == ToLower(table)
           cached == tableCharset[tableKey]
           f == flush
           issued == ready
       IN
       /\ gtcTable' = table
       /\ gtcCols' = columns
       /\ gtcAgain' = (tableKey \in introspected)
       /\ IF CachedTruthy(cached)
            THEN /\ gtcRet' = cached
                 /\ gtcIssued' = FALSE
                 /\ pc' = "idle" /\ ret' = cached
                 /\ curQuery' = ""
                 /\ UNCHANGED << checkCurrentQuery, resultVars, introspected,
                                 tableCharset, colMeta >>
          ELSE /\ checkCurrentQuery' = TRUE
               /\ gtcIssued' = issued
               /\ introspected' = IF issued THEN introspected \cup {tableKey}
                                  ELSE introspected
               /\ IF ready
                    THEN /\ lastResult' = f.lastResult
                         /\ rowsAffected' = f.rowsAffected
                         /\ numRows' = f.numRows
                         /\ result' = f.result
                         /\ lastError' = f.lastError
                         /\ lastQuery' = ShowColumns(table)
                         /\ curQuery' = ShowColumns(table)
                         /\ pc' = "q_exec1"
                    ELSE /\ curQuery' = ""
                         /\ pc' = "idle"
                         /\ UNCHANGED resultVars
               /\ IF getResultsValue = "promise"
                    THEN /\ gtcRet' = "threw"
                         /\ ret' = IF ready THEN "none" ELSE "threw"
                         /\ UNCHANGED << tableCharset, colMeta >>
                    ELSE /\ gtcRet' = computeTableCharset(columns)
                         /\ ret' = gtcRet'
                         /\ colMeta' = [colMeta EXCEPT ![tableKey] = columns]
                         /\ tableCharset' =
                              [tableCharset EXCEPT ![tableKey] = gtcRet']
  /\ op' = "getTableCharset" /\ retNum' = 0
  /\ execs' = 0 /\ sends' = 0 /\ lossDetected' = FALSE /\ drvError' = ""
  /\ hadRows' = FALSE
  /\ ResetCcHist
  /\ bailLog' = << >> /\ setupSteps' = {} /\ envSeen' = {}
  /\ UNCHANGED << proc, exitFrom, showErrors, suppressErrors, ready,
                  hasConnected, isMySQL, dbh, error, insertId, numQueries,
                  driverVars >>

\* --------------------------------------------------------------- prefix
\* setPrefix(prefix, setTableNames)
setPrefix ==
  /\ NoSet
  /\ Idle
  /\ \E p \in Prefixes, setTableNames \in BOOLEAN :
       LET oldPrefix == IF basePrefix # << >> THEN basePrefix
                        ELSE IF IS_MULTISITE THEN << >> ELSE p
           global == withTables(tableNames, "global", p, blogId)
           newPrefix == getBlogPrefix(p, blogId, ArgNull)
           blog == withTables(global, "blog", p, blogId)
           old == withTables(blog, "old", p, blogId)
       IN
       /\ pfxPrefix' = p /\ pfxSetNames' = setTableNames
       /\ IF InvalidPrefix(p)
            THEN /\ pfxRet' = ErrorValue
                 /\ UNCHANGED << basePrefix, prefix, tableNames >>
          ELSE IF ~setTableNames
            THEN /\ basePrefix' = p
                 /\ pfxRet' = StringValue(oldPrefix)
                 /\ UNCHANGED << prefix, tableNames >>
          ELSE IF ~tablesIsFunction
            THEN /\ basePrefix' = p
                 /\ pfxRet' = Threw
                 /\ UNCHANGED << prefix, tableNames >>
          ELSE IF IS_MULTISITE /\ blogId = 0
            THEN /\ basePrefix' = p
                 /\ tableNames' = global
                 /\ pfxRet' = StringValue(oldPrefix)
                 /\ UNCHANGED prefix
          ELSE /\ basePrefix' = p
               /\ prefix' = newPrefix
               /\ tableNames' = old
               /\ pfxRet' = StringValue(oldPrefix)
  /\ op' = "setPrefix" /\ pfxBlogId' = 0
  /\ UNCHANGED << IS_MULTISITE, MULTISITE, blogId, siteId, quietVars,
                  charsetVars, prepareVars, escapeVars, crudVars,
                  awaiting, resultsVars, stripVars, tableVars >>

\* setBlogId(blogId, networkId)
setBlogId ==
  /\ NoSet
  /\ Idle
  /\ \E id \in 0..MaxBlogId, networkId \in 0..1 :
       LET newPrefix == getBlogPrefix(basePrefix, id, ArgNull)
           blog == withTables(tableNames, "blog", basePrefix, id)
           old == withTables(blog, "old", basePrefix, id)
       IN
       /\ pfxBlogId' = id
       /\ siteId' = IF networkId # 0 THEN networkId ELSE siteId
       /\ blogId' = id
       /\ prefix' = newPrefix
       /\ IF ~tablesIsFunction
            THEN /\ pfxRet' = Threw
                 /\ UNCHANGED tableNames
            ELSE /\ tableNames' = old
                 /\ pfxRet' = NumberValue(blogId)
  /\ op' = "setBlogId" /\ pfxPrefix' = << >> /\ pfxSetNames' = FALSE
  /\ UNCHANGED << IS_MULTISITE, MULTISITE, basePrefix, quietVars,
                  charsetVars, prepareVars, escapeVars, crudVars,
                  awaiting, resultsVars, stripVars, tableVars >>

\* A call of getBlogPrefix(blogId), blogId null or a number.
callGetBlogPrefix ==
  /\ NoSet
  /\ Idle
  /\ \E arg \in {ArgNull} \cup 0..MaxBlogId :
       /\ pfxBlogId' = arg
       /\ pfxRet' = StringValue(getBlogPrefix(basePrefix, blogId, arg))
  /\ op' = "getBlogPrefix" /\ pfxPrefix' = << >> /\ pfxSetNames' = FALSE
  /\ UNCHANGED << IS_MULTISITE, MULTISITE, basePrefix, prefix, blogId, siteId,
                  tableNames, quietVars, charsetVars, prepareVars,
                  escapeVars, crudVars, awaiting, resultsVars, stripVars, tableVars >>

\* --------------------------------------------------------------- prepare
\* prepare(query, ...args) and prepare(query, args)
prepare ==
  /\ NoSet
  /\ Idle
  /\ \E call \in [t : PrepareQueries, args : ArgLists, array : BOOLEAN]
                \cup (IF prepRet.kind = "string"
                           /\ \A i \in DOMAIN prepRet.str :
                                prepRet.str[i] # "%"
                        \* the string the last call returned, prepared again
                        THEN {[t |-> Template(<< prepRet.str >>, << >>),
                               args |-> prepArgs, array |-> prepArray]}
                        ELSE {}),
        token \in {placeholderEscape(_placeholder, generated) :
                     generated \in Tokens} :
       LET r == prepareResult(call.t, call.args, call.array, token) IN
       /\ prepQuery' = call.t /\ prepArgs' = call.args
       /\ prepArray' = call.array
       /\ prepRet' = r.ret /\ prepWarn' = r.warn
       /\ _placeholder' = IF r.escaped THEN token ELSE _placeholder
       /\ tokenUsed' = IF r.escaped THEN token ELSE ""
  /\ op' = "prepare"
  /\ escQuery' = << >> /\ escOrigin' = NoOrigin /\ escRet' = NoValue
  /\ UNCHANGED << quietVars, charsetVars, prefixVars, crudVars, awaiting,
                  resultsVars, stripVars, tableVars >>

\* ---------------------------------------------------- placeholder escape
NoPrepare ==
  /\ prepQuery' = Template(<< << >> >>, << >>) /\ prepArgs' = << >>
  /\ prepArray' = FALSE /\ prepRet' = NoValue /\ prepWarn' = << >>

\* A call of placeholderEscape()
callPlaceholderEscape ==
  /\ NoSet
  /\ Idle
  /\ \E token \in {placeholderEscape(_placeholder, generated) :
                     generated \in Tokens} :
       /\ _placeholder' = token /\ tokenUsed' = token
       /\ escRet' = StringValue(<< token >>)
  /\ op' = "placeholderEscape"
  /\ escQuery' = << >> /\ escOrigin' = NoOrigin
  /\ NoPrepare
  /\ UNCHANGED << quietVars, charsetVars, prefixVars, crudVars, awaiting,
                  resultsVars, stripVars, tableVars >>

\* A call of addPlaceholderEscape(query)
callAddPlaceholderEscape ==
  /\ NoSet
  /\ Idle
  /\ \E query \in EscapeQueries,
        token \in {placeholderEscape(_placeholder, generated) :
                     generated \in Tokens} :
       /\ _placeholder' = token /\ tokenUsed' = token
       /\ escQuery' = query
       /\ escRet' = StringValue(addPlaceholderEscape(query, token))
  /\ op' = "addPlaceholderEscape"
  /\ escOrigin' = NoOrigin
  /\ NoPrepare
  /\ UNCHANGED << quietVars, charsetVars, prefixVars, crudVars, awaiting,
                  resultsVars, stripVars, tableVars >>

\* A call of removePlaceholderEscape(query); the query may be what
\* addPlaceholderEscape has just returned.
callRemovePlaceholderEscape ==
  /\ NoSet
  /\ Idle
  /\ \E from \in [fed : {FALSE}, q : EscapeQueries]
                \cup (IF op = "addPlaceholderEscape"
                        THEN {[fed |-> TRUE, q |-> escQuery]} ELSE {}),
        token \in {placeholderEscape(_placeholder, generated) :
                     generated \in Tokens} :
       LET query == IF from.fed THEN escRet.str ELSE from.q IN
       /\ _placeholder' = token /\ tokenUsed' = token
       /\ escQuery' = query
       /\ escOrigin' = IF from.fed THEN from ELSE NoOrigin
       /\ escRet' = removePlaceholderEscape(query, token)
  /\ op' = "removePlaceholderEscape"
  /\ NoPrepare
  /\ UNCHANGED << quietVars, charsetVars, prefixVars, crudVars, awaiting,
                  resultsVars, stripVars, tableVars >>

\* ------------------------------------------- insert, replace, update, delete
\* processFieldFormats(data, format): the k-th entry takes
\* formats.shift() || originalFormats[0] when a format was given (formats
\* is empty when the format is a string, which leaves undefined), and
\* fieldTypes[field] or '%s' when none was; fieldTypes is empty.
processFieldFormats(data, format) ==
  [k \in DOMAIN data.values |->
     [field |-> FieldName(data, k), value |-> data.values[k],
      format |-> IF format = Null THEN "%s"
                 ELSE IF format = "%d" THEN "undefined"
                 ELSE IF k <= Len(format) THEN format[k]
                 ELSE format[1]]]

\* getColCharset(table, column): its first statement after the two keys
\* assigns to charset, which the const declaration at the end of the
\* function holds uninitialised: a ReferenceError.
getColCharset == "threw"

\* stripInvalidText is async: the caller that does not await it holds a
\* promise.
stripInvalidTextValue == "promise"

ValueFailedText == "WordPress database error: Processing the value for the following field failed"
ValuesFailedText == "WordPress database error: Processing the values for the following fields failed"

\* processFields(table, data, format).  processFieldCharsets asks
\* getColCharset for every field whose format is neither %d nor %f.  When
\* there is none, charset and length are false for every field,
\* stripInvalidText is handed the data and returns its promise, which is
\* not the data: every field counts as a problem field, lastError is set,
\* and the function ends without a return statement.
processFields(data, format) ==
  LET fields == processFieldFormats(data, format) IN
  IF \E k \in DOMAIN fields :
       fields[k].format \notin {"%d", "%f"} /\ getColCharset = "threw"
    THEN [kind |-> "threw", fields |-> << >>, lastError |-> lastError]
  ELSE IF stripInvalidTextValue = "promise"
    THEN [kind |-> "undefined", fields |-> << >>,
          lastError |-> IF Len(fields) = 1 THEN ValueFailedText
                        ELSE ValuesFailedText]
  ELSE [kind |-> "data", fields |-> fields, lastError |-> lastError]

\* The VALUES format of a column of insert and replace.
valueFormat(f) ==
  IF f.value = Null THEN << f.field, "NULL" >> ELSE << f.field, f.format >>
\* A SET assignment of update.
assignment(f) ==
  IF f.value = Null THEN << f.field, "=", "NULL" >>
  ELSE << f.field, "=", f.format >>
\* A WHERE predicate of update and delete.
condition(f) ==
  IF f.value = Null THEN << f.field, "IS NULL" >>
  ELSE << f.field, "=", f.format >>
nonNull(f) == f.value # Null
\* The values pushed for prepare: those of the fields that are not null.
pushedValues(fields) ==
  LET kept == SelectSeq(fields, nonNull) IN
  [k \in DOMAIN kept |-> kept[k].value]

\* What a call does once its statement is built: checkCurrentQuery is
\* cleared and the prepared statement goes to query().
HandToQuery(sql, values) ==
  /\ crudSql' = sql /\ crudValues' = values
  /\ crudRet' = "query"
  /\ checkCurrentQuery' = FALSE

\* A call that ends before it has a statement.
EndsWith(r) ==
  /\ crudSql' = NoSql /\ crudValues' = << >>
  /\ crudRet' = r
  /\ UNCHANGED checkCurrentQuery

\* What a call of these four leaves alone in any case.
CrudFrame ==
  /\ NoSet
  /\ NoPrepare
  /\ escQuery' = << >> /\ escOrigin' = NoOrigin /\ escRet' = NoValue
  /\ tokenUsed' = "" /\ UNCHANGED _placeholder
  /\ UNCHANGED << envSeen, proc, exitFrom, showErrors, suppressErrors,
                  ready, hasConnected, isMySQL, error, dbh, lastQuery,
                  lastResult, numRows, rowsAffected, result, numQueries,
                  driverVars, pc, ret, retNum, queryHist, ccHist, bailLog,
                  setupSteps, charsetVars, prefixVars, awaiting,
                  resultsVars, stripVars, tableVars >>

\* _insertReplaceHelper(table, data, format, type): iterating the result
\* of processFields with for-of throws when it is undefined.
_insertReplaceHelper(type) ==
  /\ Idle
  /\ \E data \in DataArgs, format \in FormatArgs :
       LET processed == processFields(data, format) IN
       /\ crudData' = data /\ crudFormat' = format
       /\ lastError' = processed.lastError
       /\ IF processed.kind = "false" THEN EndsWith("false")
          ELSE IF processed.kind # "data" THEN EndsWith("threw")
          ELSE HandToQuery(
                 Sql(type, [k \in DOMAIN processed.fields |->
                              valueFormat(processed.fields[k])], << >>),
                 pushedValues(processed.fields))
  /\ insertId' = 0
  /\ crudWhere' = NoData /\ crudWhereFormat' = Null
  /\ CrudFrame

insert == _insertReplaceHelper("INSERT") /\ op' = "insert"

replace == _insertReplaceHelper("REPLACE") /\ op' = "replace"

\* update(table, data, where, format, whereFormat): Object.entries of the
\* result of processFields throws when it is undefined.
update ==
  /\ Idle
  /\ \E data \in DataArgs, where \in DataArgs,
        format \in WhereFormatArgs, whereFormat \in WhereFormatArgs :
       /\ crudData' = data /\ crudFormat' = format
       /\ crudWhere' = where /\ crudWhereFormat' = whereFormat
       /\ IF ~data.isArray \/ ~where.isArray
            THEN EndsWith("false") /\ UNCHANGED lastError
          ELSE LET processedData == processFields(data, format) IN
               IF processedData.kind \in {"false", "threw"}
                 THEN /\ EndsWith(processedData.kind)
                      /\ lastError' = processedData.lastError
               ELSE LET processedWhere == processFields(where, whereFormat)
                    IN
                    /\ lastError' = IF processedWhere.kind = "threw"
                                      THEN processedData.lastError
                                    ELSE processedWhere.lastError
                    /\ IF processedWhere.kind = "false"
                         THEN EndsWith("false")
                       ELSE IF processedData.kind # "data"
                               \/ processedWhere.kind # "data"
                         THEN EndsWith("threw")
                       ELSE HandToQuery(
                              Sql("UPDATE",
                                  [k \in DOMAIN processedData.fields |->
                                     assignment(processedData.fields[k])],
                                  [k \in DOMAIN processedWhere.fields |->
                                     condition(processedWhere.fields[k])]),
                              pushedValues(processedData.fields)
                                \o pushedValues(processedWhere.fields))
  /\ op' = "update"
  /\ UNCHANGED insertId
  /\ CrudFrame

\* delete(table, where, whereFormat)
delete ==
  /\ Idle
  /\ \E where \in DataArgs, whereFormat \in WhereFormatArgs :
       /\ crudWhere' = where /\ crudWhereFormat' = whereFormat
       /\ IF ~where.isArray
            THEN EndsWith("false") /\ UNCHANGED lastError
          ELSE LET processedWhere == processFields(where, whereFormat) IN
               /\ lastError' = processedWhere.lastError
               /\ IF processedWhere.kind = "false" THEN EndsWith("false")
                  ELSE IF processedWhere.kind # "data"
                    THEN EndsWith("threw")
                  ELSE HandToQuery(
                         Sql("DELETE", << >>,
                             [k \in DOMAIN processedWhere.fields |->
                                condition(processedWhere.fields[k])]),
                         pushedValues(processedWhere.fields))
  /\ op' = "delete"
  /\ crudData' = NoData /\ crudFormat' = Null
  /\ UNCHANGED insertId
  /\ CrudFrame

\* ------------------------------------------------------------ getResults
OBJECT == "OBJECT"
OBJECT_K == "OBJECT_K"
ARRAY_A == "ARRAY_A"
ARRAY_N == "ARRAY_N"

\* checkSafeCollation(query): true for SHOW/DESCRIBE/DESC/EXPLAIN/CREATE
\* statements and for statements of ASCII characters only; the statements
\* of the model are all of these two kinds.
checkSafeCollation(query) == IsPassThrough(query) \/ checkAscii(query)

\* key in newArray, for an array: the keys assigned so far and the names
\* every array answers to, of which length is one.
ArrayMembers == {"length"}

\* The OBJECT_K loop from row i on: newArray[key] = row unless key is in
\* newArray.
RECURSIVE objectK(_, _, _)
objectK(rows, i, newArray) ==
  IF i > Len(rows) THEN newArray
  ELSE LET key == rows[i][3] IN
       objectK(rows, i + 1,
               IF key \in ArrayMembers \cup DOMAIN newArray THEN newArray
               ELSE [k \in DOMAIN newArray \cup {key} |->
                       IF k = key THEN rows[i] ELSE newArray[k]])

\* What getResults makes of lastResult once query() is done.
resultsAs(output) ==
  IF output = OBJECT THEN Rows("rows", lastResult, << >>)
  ELSE IF output = OBJECT_K
    THEN Rows("keyed", << >>,
              IF lastResult = NullResult THEN << >>
              ELSE objectK(lastResult, 1, << >>))
  ELSE Rows("rows", IF lastResult = NullResult THEN << >> ELSE lastResult,
            << >>)

\* getResults(query, output) up to the first await of the query() it calls.
getResultsStart ==
  /\ NoSet
  /\ Idle
  /\ \E query \in Queries, output \in {OBJECT, OBJECT_K, ARRAY_A, ARRAY_N} :
       /\ grOutput' = output
       /\ IF query = ""
            THEN /\ grRet' = Rows("null", << >>, << >>)
                 /\ awaiting' = "none"
                 /\ UNCHANGED << quietVars, curQuery >>
          ELSE /\ queryBegin(query, checkCurrentQuery
                                      /\ ~checkSafeCollation(query))
               /\ grRet' = NoRows
               /\ awaiting' = "getResults"
  /\ op' = "getResults"
  /\ UNCHANGED << charsetVars, prefixVars, prepareVars, escapeVars,
                  crudVars, stripVars, tableVars >>

\* The rest of getResults, once query() has returned.
getResultsFinish ==
  /\ NoSet
  /\ pc = "idle" /\ proc = "running" /\ awaiting = "getResults"
  /\ awaiting' = "none"
  /\ grRet' = IF ret = "threw" THEN Rows("threw", << >>, << >>)
              ELSE resultsAs(grOutput)
  /\ UNCHANGED << quietVars, op, grOutput, charsetVars, prefixVars,
                  prepareVars, escapeVars, crudVars, stripVars, tableVars >>

\* ------------------------------------------------------- stripInvalidText
\* A string is the sequence of its UTF-16 code units: a is an ASCII
\* letter, C3, E1 and A9 are U+00C3, U+00E1 and U+00A9, HS and LS are the
\* high and the low half of a surrogate pair.
IsSurrogate(c) == c \in {"HS", "LS"}

\* Buffer.byteLength(s, 'utf8') from code unit i on: one byte for ASCII,
\* two for U+0080..U+07FF, four for a surrogate pair and three for a lone
\* surrogate (written as U+FFFD).
RECURSIVE byteLength(_, _)
byteLength(str, i) ==
  IF i > Len(str) THEN 0
  ELSE IF str[i] = "HS" /\ i < Len(str) /\ str[i + 1] = "LS"
    THEN 4 + byteLength(str, i + 2)
  ELSE IF IsSurrogate(str[i]) THEN 3 + byteLength(str, i + 1)
  ELSE IF str[i] = "a" THEN 1 + byteLength(str, i + 1)
  ELSE 2 + byteLength(str, i + 1)

\* str.substring(0, length) and str.slice(0, length) count code units.
substring(str, length) ==
  SubSeq(str, 1, IF length < Len(str) THEN length ELSE Len(str))

\* checkAscii for a value
checkAsciiValue(str) == \A i \in DOMAIN str : str[i] = "a"

\* How many code units the first group of the validation pattern takes at
\* position i: [\x00-\x7F] takes an ASCII unit, [\xC2-\xDF][\x80-\xBF]
\* takes U+00C3 with U+00A9 after it, [\xE1-\xEC][\x80-\xBF]{2} takes
\* U+00E1 with two U+00A9 after it, and no alternative starts with U+00A9
\* or a surrogate; 0 when the group does not match.
groupAt(str, i) ==
  IF str[i] = "a" THEN 1
  ELSE IF str[i] = "C3" /\ i < Len(str) /\ str[i + 1] = "A9" THEN 2
  ELSE IF str[i] = "E1" /\ i + 1 < Len(str) /\ str[i + 1] = "A9"
            /\ str[i + 2] = "A9" THEN 3
  ELSE 0

\* value.replace(regex, '$1') from position i on, count repetitions into a
\* match of (group){1,40} whose last repetition took last.  $1 is what the
\* last repetition of the group took; a code unit matched by the
\* alternative '.' is replaced by the empty $1.
RECURSIVE replaceValid(_, _, _, _)
replaceValid(str, i, count, last) ==
  IF i > Len(str) THEN last
  ELSE LET n == groupAt(str, i) IN
       IF n > 0 /\ count < 40
         THEN replaceValid(str, i + n, count + 1, SubSeq(str, i, i + n - 1))
       ELSE IF n > 0
         THEN last \o replaceValid(str, i + n, 1, SubSeq(str, i, i + n - 1))
       ELSE last \o replaceValid(str, i + 1, 0, << >>)

\* The loop body of stripInvalidText for one value: the value as the loop
\* leaves it, and whether it is marked for the database.
skippedIfNotString(value) == ~value.isString
\* charset === false, or typeof value.value !== 'string'
skipped(value) == value.charset = "false" \/ ~value.isString

stripValue(value) ==
  LET hasLength == value.length.type # "none"
      length == value.length.length
      asciiOrLatin1 == value.charset = "latin1" \/ checkAsciiValue(value.chars)
      truncateByByteLength == (hasLength /\ value.length.type = "byte")
                                \/ asciiOrLatin1
      cut == IF truncateByByteLength /\ hasLength
                  /\ byteLength(value.chars, 1) > length
               THEN substring(value.chars, length) ELSE value.chars
      valid == replaceValid(cut, 1, 0, << >>)
  IN
  IF skipped(value) THEN [value |-> value, db |-> FALSE]
  ELSE IF asciiOrLatin1
    THEN [value |-> [value EXCEPT !.chars = cut], db |-> FALSE]
  ELSE IF value.charset \in {"utf8", "utf8mb3", "utf8mb4"}
    THEN [value |-> [value EXCEPT !.chars =
                       IF hasLength /\ byteLength(valid, 1) > length
                         THEN substring(valid, length) ELSE valid],
          db |-> FALSE]
  ELSE [value |-> [value EXCEPT !.chars = cut], db |-> TRUE]

\* The columns marked for the database by the loop.
marked(data) == {k \in DOMAIN data : stripValue(data[k]).db}

\* The columns that get an expression in the statement: every marked one
\* but those without a length whose charset is binary.
converted(data) ==
  {k \in marked(data) : data[k].length.type # "none"
                          \/ data[k].charset # "binary"}

\* The statement of the follow-up query.
ConvertQuery == "SELECT CONVERT"

\* A follow-up query for every marked value.
getRowForEach(columns) == Cardinality(columns)
\* The getRow calls of one stripInvalidText call: one if a value is marked.
getRowCalls(columns) == IF columns = {} THEN 0 ELSE 1

\* stripInvalidText(data) up to the await of getRow.  The connection
\* charset is read from the handle (this.charset is empty), which throws
\* when there is none.
stripInvalidText ==
  /\ NoSet
  /\ UNCHANGED tableVars
  /\ Idle
  /\ \E data \in StripData :
       LET out == [k \in DOMAIN data |-> stripValue(data[k]).value] IN
       /\ sitData' = data /\ sitOut' = out
       /\ IF getRowCalls(marked(data)) = 0
            THEN /\ sitRet' = "data" /\ sitCalls' = 0 /\ sitParts' = {}
                 /\ awaiting' = "none"
                 /\ UNCHANGED << quietVars, curQuery >>
          ELSE IF dbh = Null
            THEN /\ sitRet' = "threw" /\ sitCalls' = 0 /\ sitParts' = {}
                 /\ awaiting' = "none"
                 /\ UNCHANGED << quietVars, curQuery >>
          ELSE /\ sitRet' = "none"
               /\ sitCalls' = getRowCalls(marked(data))
               /\ sitParts' = converted(data)
               /\ awaiting' = "stripInvalidText"
               /\ queryBegin(ConvertQuery, FALSE)
  /\ op' = "stripInvalidText"
  /\ UNCHANGED << charsetVars, prefixVars, prepareVars, escapeVars,
                  crudVars, resultsVars >>

\* What the row gives for a converted column.
Converted == [isString |-> TRUE, chars |-> << "a" >>]

\* The rest of stripInvalidText, once getRow has its answer: without a
\* first row it throws, with one it takes the converted values.
stripInvalidTextFinish ==
  /\ NoSet
  /\ UNCHANGED tableVars
  /\ pc = "idle" /\ proc = "running" /\ awaiting = "stripInvalidText"
  /\ awaiting' = "none"
  /\ IF ret = "threw" \/ lastResult \in {<< >>, NullResult}
       THEN sitRet' = "threw" /\ UNCHANGED sitOut
     ELSE /\ sitRet' = "data"
          /\ sitOut' = [k \in DOMAIN sitOut |->
                          IF k \in sitParts
                            THEN [sitOut[k] EXCEPT
                                    !.isString = Converted.isString,
                                    !.chars = Converted.chars]
                          ELSE sitOut[k]]
  /\ UNCHANGED << quietVars, op, sitData, sitCalls, sitParts, charsetVars,
                  prefixVars, prepareVars, escapeVars, crudVars,
                  resultsVars >>

\* ---------------------------------------------------- getTableFromQuery
\* The longest run of [0-9a-zA-Z$_.-] and backticks a word starts with.
NameRun(w) ==
  CASE w = "'t%'" -> ""
    [] w = "Name='t'" -> "Name"
    [] OTHER -> w

\* replace(/<backtick>/g, '')
Untick(name) == IF name = Ticked THEN "t" ELSE name

\* The positions of FROM that a name follows.
FromBeforeName(q) ==
  {i \in 2..(Len(q) - 1) : q[i] = "FROM" /\ NameRun(q[i + 1]) # ""}

Least(S) == CHOOSE i \in S : \A j \in S : i <= j
Greatest(S) == CHOOSE i \in S : \A j \in S : j <= i

\* The first pattern: SELECT ... FROM name, INSERT, REPLACE, UPDATE and
\* DELETE name; .*? stops at the first FROM that a name follows.
commonDml(q) ==
  IF q[1] = "SELECT"
    THEN IF FromBeforeName(q) # {}
           THEN NameRun(q[Least(FromBeforeName(q)) + 1])
         ELSE ""
  ELSE IF q[1] \in {"INSERT", "REPLACE", "UPDATE"}
    THEN IF Len(q) >= 2 THEN NameRun(q[2]) ELSE ""
  ELSE ""

\* The second pattern: SHOW TABLES ... WHERE Name = 'name'.
showWhereName(q) ==
  IF /\ Len(q) >= 4 /\ q[1] = "SHOW" /\ q[2] = "TABLES"
     /\ \E i \in 3..(Len(q) - 1) : q[i] = "WHERE" /\ q[i + 1] = "Name='t'"
    THEN "t"
  ELSE ""

\* The third pattern: SHOW TABLES LIKE 'name%'.
showLike(q) ==
  IF /\ Len(q) >= 4 /\ q[1] = "SHOW" /\ q[2] = "TABLES"
     /\ q[3] = "LIKE" /\ q[4] = "'t%'"
    THEN "t"
  ELSE ""

\* The fourth pattern, for the rest: SELECT ... FROM, TRUNCATE [TABLE] name,
\* SHOW ... FROM name (.* goes to the last FROM that a name follows), and
\* the maintenance statements.
broadDdl(q) ==
  IF q[1] = "SELECT"
    THEN IF FromBeforeName(q) # {}
           THEN NameRun(q[Least(FromBeforeName(q)) + 1])
         ELSE ""
  ELSE IF q[1] = "TRUNCATE"
    THEN IF Len(q) >= 3 /\ q[2] = "TABLE" /\ NameRun(q[3]) # ""
           THEN NameRun(q[3])
         ELSE IF Len(q) >= 2 THEN NameRun(q[2])
         ELSE ""
  ELSE IF q[1] = "SHOW"
    THEN IF FromBeforeName(q) # {}
           THEN NameRun(q[Greatest(FromBeforeName(q)) + 1])
         ELSE ""
  ELSE ""

\* getTableFromQuery(query): the table of the first pattern that matches,
\* else false.
getTableFromQuery(q) ==
  IF commonDml(q) # "" THEN Untick(commonDml(q))
  ELSE IF showWhereName(q) # "" THEN showWhereName(q)
  ELSE IF showLike(q) # "" THEN showLike(q)
  ELSE IF broadDdl(q) # "" THEN Untick(broadDdl(q))
  ELSE "false"

\* /^(SHOW|DESCRIBE|DESC|EXPLAIN|CREATE)\s/i
PassesThrough(q) ==
  Len(q) >= 2 /\ q[1] \in {"SHOW", "DESCRIBE", "DESC", "EXPLAIN", "CREATE"}

\* stripInvalidTextFromQuery(query) for a statement of words: which charset
\* it picks and how it ends.  With a table it calls getTableCharset, which
\* throws on iterating the promise of getResults; without one it takes
\* this.charset, calls stripInvalidText without awaiting it and reads
\* data[0].value of the promise, which throws a TypeError.
stripInvalidTextFromWords(q) ==
  IF PassesThrough(q) THEN [ret |-> "query", charset |-> "none"]
  ELSE IF getTableFromQuery(q) # "false"
    THEN [ret |-> "threw", charset |-> "table"]
  ELSE [ret |-> "threw", charset |-> "connection"]

\* What a call on a statement leaves alone.
StatementFrame ==
  /\ NoSet
  /\ Idle
  /\ gtqQuery # << >>
  /\ UNCHANGED << quietVars, charsetVars, prefixVars, prepareVars,
                  escapeVars, crudVars, awaiting, resultsVars, stripVars,
                  gtqQuery >>

\* A call of getTableFromQuery(query).
callGetTableFromQuery ==
  /\ StatementFrame
  /\ gtqRet' = getTableFromQuery(gtqQuery)
  /\ sifqRet' = NoStripped
  /\ op' = "getTableFromQuery"

\* A call of stripInvalidTextFromQuery(query).
callStripInvalidTextFromQuery ==
  /\ StatementFrame
  /\ gtqRet' = IF PassesThrough(gtqQuery) THEN "none"
               ELSE getTableFromQuery(gtqQuery)
  /\ sifqRet' = stripInvalidTextFromWords(gtqQuery)
  /\ op' = "stripInvalidTextFromQuery"

\* ================================================================ claims
\* checkConnection has answered (returned, thrown or ended the process).
CcFinished == ccRet # "none"

\* The retry loop of checkConnection ran to its end.
Exhausted == CcFinished /\ probeFailed /\ delays = reconnectRetries

\* A query() call that got past flush has finished.
QueryExecuted == op = "query" /\ pc = "idle" /\ execs >= 1

\* C1: when the liveness probe fails and no reconnect attempt opens a
\* connection, checkConnection makes exactly reconnectRetries attempts, waits
\* once after each of them, and then reports failure.
C1_ExactlyRetriesThenFailure ==
  (CcFinished /\ probeFailed /\ ~anyPhysOk)
    => /\ attempts = reconnectRetries
       /\ delays = reconnectRetries
       /\ ccRet \in {"false", "undef", "exit"}

\* C2: a query() call that detected connection loss and finished while the
\* process runs has executed the statement twice if checkConnection said the
\* connection is back, and otherwise executed it once and returned false with
\* insertId = 0.
C2_ReconnectThenRetryOnce ==
  (op = "query" /\ pc = "idle" /\ lossDetected /\ proc = "running")
    => IF ccRet = "true"
         THEN execs = 2
         ELSE ret = "false" /\ insertId = 0 /\ execs = 1

\* C3: after a dbConnect whose physical connection opened, ready and
\* hasConnected are true, the charset, SQL mode and schema steps have run, and
\* the call returned true.
C3_ConnectMarksReady ==
  (op = "dbConnect" /\ lastAttempt = "ok")
    => /\ ready /\ hasConnected
       /\ {"setCharset", "setSqlMode", "select"} \subseteq setupSteps
       /\ ret = "true"

\* C4: once a reconnect attempt of checkConnection has opened the connection,
\* checkConnection has returned true after exactly that many attempts and one
\* delay fewer, and the instance is ready.
C4_ReconnectStopsOnSuccess ==
  (op = "checkConnection" /\ anyPhysOk)
    => /\ ccRet = "true"
       /\ lastAttempt = "ok"
       /\ delays = attempts - 1
       /\ ready

C6_BailIffAllowBail ==
  Exhausted
    => /\ (bailLog # << >>) <=> ccAllowBail
       /\ ~ccAllowBail => ccRet = "false"

\* C6 as amended: once the retries are exhausted, bail is called if and only
\* if allowBail is true and TEMPLATE_REDIRECT is not set; otherwise the call
\* returns false and bail is not called.
C6_BailUnlessOptOutOrRedirect ==
  Exhausted
    => /\ (bailLog # << >>)
            <=> (ccAllowBail /\ "TEMPLATE_REDIRECT" \notin envSeen)
       /\ (~ccAllowBail \/ "TEMPLATE_REDIRECT" \in envSeen)
            => ccRet = "false"

C6_Witness ==
  /\ op = "checkConnection" /\ Exhausted /\ ~ccAllowBail
  /\ ccRet = "false" /\ bailLog = << >>

\* The driver reported an error for the statement of the finished query().
DriverErrorReported ==
  QueryExecuted /\ ret # "none" /\ dbh # Null /\ drvError # ""

\* The process ended where a connection or a reconnection had failed.
ExitOnConnectFailure ==
  \/ op = "dbConnect" /\ lastAttempt \in ConnectRejects
  \/ ccRet = "exit" /\ Exhausted

C8_BailModes ==
  bailLog # << >>
    => IF bailLog[1] = "fatal"
         THEN bailLog[3] = "exit" /\ proc = "exited"
         ELSE bailLog[3] = "false" /\ error # << >> /\ proc = "running"

GtcCalled == op = "getTableCharset" /\ gtcRet # "none"

\* C11: a getTableCharset call for a table key that an earlier call has
\* already introspected issues no further introspection statement and
\* returns a charset value ('binary', 'ascii', a charset name or
\* false).
C11_CharsetCachedPerTableKey ==
  (GtcCalled /\ gtcAgain)
    => /\ ~gtcIssued
       /\ gtcRet \in {"false", "binary", "ascii"}
                       \cup {CollationCharset(c) : c \in Collations}

\* The distinct collation prefixes of the columns, utf8mb3 folded into utf8.
PrefixSet(columns) ==
  LET S == {CollationCharset(columns[i].Collation) :
              i \in {j \in DOMAIN columns : columns[j].Collation # ""}}
  IN (S \ {"utf8mb3"}) \cup (IF "utf8mb3" \in S THEN {"utf8"} ELSE {})

\* The charset C12 states for a set S of collation prefixes.
StatedCharset(S) ==
  LET R == S \ {"latin1"} IN
  IF S = {} THEN "false"
  ELSE IF Cardinality(S) = 1 THEN CHOOSE c \in S : TRUE
  ELSE IF Cardinality(R) = 1 THEN CHOOSE c \in R : TRUE
  ELSE IF R = {"utf8", "utf8mb4"} THEN "utf8"
  ELSE "ascii"

\* C12: for a table with no binary or blob column, getTableCharset returns
\* the charset stated for the set of its columns' collation prefixes.
C12_CharsetOfTextTable ==
  (GtcCalled /\ ~HasBinaryColumn(gtcCols))
    => gtcRet = StatedCharset(PrefixSet(gtcCols))

\* C13: for a table with a binary or blob column, getTableCharset returns
\* 'binary' and 'binary' is the value cached for the table.
C13_BinaryColumnMakesBinary ==
  (GtcCalled /\ HasBinaryColumn(gtcCols))
    => /\ gtcRet = "binary"
       /\ tableCharset[ToLower(gtcTable)] = "binary"

\* The tenant the last getBlogPrefix call was about.
AskedTenant == IF pfxBlogId = ArgNull THEN blogId ELSE pfxBlogId

\* C14 as stated: with the multi-tenant flag (IS_MULTISITE) on,
\* getBlogPrefix gives the bare base prefix for tenants 0 and 1 and
\* basePrefix + N + "_" for every other tenant N.
C14_TenantPrefixWheneverMultisite ==
  (op = "getBlogPrefix" /\ IS_MULTISITE)
    => pfxRet.str = IF AskedTenant \in {0, 1} THEN basePrefix
                    ELSE basePrefix \o Decimal(AskedTenant) \o << "_" >>

\* C14, amended: getBlogPrefix gives the bare base prefix when IS_MULTISITE
\* is off, and when IS_MULTISITE and MULTISITE are both on and the tenant is
\* 0 or 1; in every other case (IS_MULTISITE on and either the tenant is
\* neither 0 nor 1 or MULTISITE is off) it gives basePrefix + N + "_".
C14_TenantPrefixNeedsBothFlags ==
  op = "getBlogPrefix"
    => /\ pfxRet.kind = "string"
       /\ ~IS_MULTISITE => pfxRet.str = basePrefix
       /\ (IS_MULTISITE /\ MULTISITE /\ AskedTenant \in {0, 1})
            => pfxRet.str = basePrefix
       /\ (IS_MULTISITE /\ ~(MULTISITE /\ AskedTenant \in {0, 1}))
            => pfxRet.str = basePrefix \o Decimal(AskedTenant) \o << "_" >>

\* Tenant 1 of a process with IS_MULTISITE on and MULTISITE off gets a
\* numbered prefix, and tenant 10 gets a two-digit one.
C14_Witness ==
  /\ op = "getBlogPrefix" /\ IS_MULTISITE /\ ~MULTISITE
  /\ basePrefix = << "w", "p", "_" >>
  /\ \/ pfxBlogId = 1 /\ pfxRet.str = << "w", "p", "_", "1", "_" >>
     \/ pfxBlogId = 10 /\ pfxRet.str = << "w", "p", "_", "1", "0", "_" >>

\* prefix matches ^[A-Za-z0-9_]+$
MatchesWordPlus(p) == p # << >> /\ \A i \in DOMAIN p : p[i] \in WordChars

\* C15 as stated: setPrefix returns the invalid-prefix error exactly for the
\* prefixes that do not match ^[A-Za-z0-9_]+$, the empty string among them,
\* and then leaves basePrefix, prefix and the table names unchanged.
C15_RejectsUnlessWordPlus ==
  [][op' = "setPrefix"
       => /\ (pfxRet'.kind = "error") <=> ~MatchesWordPlus(pfxPrefix')
          /\ (pfxRet'.kind = "error")
               => (/\ basePrefix' = basePrefix /\ prefix' = prefix
                   /\ tableNames' = tableNames)]_vars

\* C15, amended: setPrefix returns the invalid-prefix error exactly for the
\* prefixes that contain a character outside [A-Za-z0-9_], so the empty
\* string is accepted; a rejected call leaves basePrefix, prefix and the
\* table names unchanged.
C15_RejectsForeignCharacters ==
  [][op' = "setPrefix"
       => /\ (pfxRet'.kind = "error")
               <=> (\E i \in DOMAIN pfxPrefix' : pfxPrefix'[i] \notin WordChars)
          /\ (pfxRet'.kind = "error")
               => (/\ basePrefix' = basePrefix /\ prefix' = prefix
                   /\ tableNames' = tableNames)]_vars

\* A prefix with a foreign character was rejected on an instance that has
\* a base prefix.
C15_Witness ==
  /\ op = "setPrefix" /\ pfxRet = ErrorValue
  /\ pfxPrefix \in { << "w", "-" >>, << "$" >>, << "w", "p", " " >> }
  /\ basePrefix = << "w", "p", "_" >>

\* C16: after a setBlogId call, or a setPrefix call with an accepted prefix
\* that asked for the table names, prefix is getBlogPrefix of the current
\* blog id and every blog-scoped and deprecated table name is that prefix
\* followed by the bare name.
C16_NamesFollowPrefix ==
  (\/ op = "setBlogId"
   \/ op = "setPrefix" /\ pfxRet.kind # "error" /\ pfxSetNames)
    => /\ prefix = getBlogPrefix(basePrefix, blogId, ArgNull)
       /\ \A t \in blogTableList \cup oldTables :
            tableNames[t] = prefix \o << t >>

\* The argument index the k-th placeholder of a query refers to: the
\* explicit number, or the placeholder's position.
RefIndex(t, k) == IF t.phs[k].num > 0 THEN t.phs[k].num - 1 ELSE k - 1

\* The argument indexes a query uses both as an identifier and as a value.
ConflictIndexes(t) ==
  { RefIndex(t, j) : j \in { j \in DOMAIN t.phs :
      /\ t.phs[j].type = "i"
      /\ \E k \in DOMAIN t.phs :
           t.phs[k].type = "s" /\ RefIndex(t, k) = RefIndex(t, j) } }

\* C17: prepare returns null for a query in which an argument index is
\* referenced by a %i placeholder and by a value placeholder, and for each
\* such index its warning lists exactly the placeholders that refer to it.
C17_DualUseRejected ==
  (op = "prepare" /\ ConflictIndexes(prepQuery) # {})
    => /\ prepRet = NullValue
       /\ \A x \in ConflictIndexes(prepQuery) :
            \E c \in DOMAIN prepWarn :
              {prepWarn[c][i] : i \in DOMAIN prepWarn[c]}
                = {placeholderText(prepQuery.phs[k]) :
                     k \in {k \in DOMAIN prepQuery.phs :
                              RefIndex(prepQuery, k) = x}}

\* The highest explicit argument number of a query, 0 when it has none.
HighestExplicit(t) ==
  IF \A k \in DOMAIN t.phs : t.phs[k].num = 0 THEN 0
  ELSE CHOOSE m \in {t.phs[k].num : k \in DOMAIN t.phs} :
         \A k \in DOMAIN t.phs : t.phs[k].num <= m

\* C18: given fewer arguments than placeholders (not as one array, and no
\* dual use), prepare returns '' when the query has no numbered placeholder
\* or the arguments are fewer than the highest explicit number, and a
\* substituted query otherwise.
C18_TooFewArguments ==
  (/\ op = "prepare" /\ ~prepArray /\ ConflictIndexes(prepQuery) = {}
   /\ Len(prepArgs) < Len(prepQuery.phs))
    => IF \/ HighestExplicit(prepQuery) = 0
          \/ Len(prepArgs) < HighestExplicit(prepQuery)
         THEN prepRet = StringValue(<< >>)
         ELSE prepRet.kind = "string" /\ prepRet.str # << >>

\* C19: given one array whose length differs from the number of
\* placeholders, prepare returns a failure result (null or ''), not a query.
C19_ArrayOfWrongLength ==
  (/\ op = "prepare" /\ prepArray /\ Len(prepQuery.phs) > 0
   /\ Len(prepArgs) # Len(prepQuery.phs))
    => prepRet \in {NullValue, StringValue(<< >>)}

\* The text C20 states for the first n placeholders of a query: a number in
\* decimal, a string in single quotes with its single quotes doubled.
RECURSIVE Substituted(_, _, _)
Substituted(t, args, n) ==
  IF n = 0 THEN t.texts[1]
  ELSE Substituted(t, args, n - 1)
         \o (IF args[n].isNum THEN Decimal(args[n].n)
             ELSE << "'" >> \o doubled(args[n].s, "'") \o << "'" >>)
         \o t.texts[n + 1]

\* Plain %d and %s placeholders, one argument each: a number for %d and a
\* string for %s.
PlainAndMatching(t, args) ==
  /\ Len(t.phs) > 0 /\ Len(args) = Len(t.phs)
  /\ \A k \in DOMAIN t.phs :
       /\ t.phs[k].num = 0
       /\ \/ t.phs[k].type = "d" /\ args[k].isNum
          \/ t.phs[k].type = "s" /\ ~args[k].isNum

\* C20: for plain %d and %s placeholders and as many arguments, prepare
\* returns the query with the i-th argument in place of the i-th
\* placeholder, numbers in decimal and strings quoted.
C20_SubstitutesInOrder ==
  (op = "prepare" /\ ~prepArray /\ PlainAndMatching(prepQuery, prepArgs))
    => prepRet = StringValue(Substituted(prepQuery, prepArgs,
                                         Len(prepQuery.phs)))

\* C21: a string prepare returns holds no '%'; prepared again it comes
\* back as it is; and removePlaceholderEscape gives back the query whose
\* addPlaceholderEscape result it is handed.
C21_EscapeRoundTrip ==
  /\ (op = "prepare" /\ prepRet.kind = "string")
       => \A i \in DOMAIN prepRet.str : prepRet.str[i] # "%"
  /\ (op = "prepare" /\ prepQuery.phs = << >>)
       => prepRet = StringValue(prepQuery.texts[1])
  /\ (op = "removePlaceholderEscape" /\ escOrigin.fed)
       => escRet = StringValue(escOrigin.q)

\* C22: once the instance holds a token it keeps it, and every operation
\* that uses a token uses the one the instance holds.
C22_OneTokenPerInstance ==
  [][/\ _placeholder # "" => _placeholder' = _placeholder
     /\ tokenUsed' # "" => tokenUsed' = _placeholder']_vars

\* removePlaceholderEscape ran on what addPlaceholderEscape returned, both
\* with the token the instance holds.
C22_Witness ==
  /\ op = "removePlaceholderEscape" /\ escOrigin.fed
  /\ _placeholder \in Tokens /\ tokenUsed = _placeholder

\* A column of the last call's data that is null, in a call that passed
\* the argument test of its operation.
NullDataColumns ==
  IF op \in {"insert", "replace"} \/ (op = "update" /\ crudData.isArray
                                        /\ crudWhere.isArray)
    THEN {k \in DOMAIN crudData.values : crudData.values[k] = Null}
  ELSE {}

\* C23: in insert, replace and update every data column whose value is
\* null stands in the statement as the literal NULL, whatever its format,
\* and no null is among the values handed to prepare.
C23_NullColumnsAreLiteralNull ==
  NullDataColumns # {}
    => /\ crudSql # NoSql
       /\ \A k \in NullDataColumns :
            /\ k \in DOMAIN crudSql.cols
            /\ crudSql.cols[k][Len(crudSql.cols[k])] = "NULL"
       /\ \A i \in DOMAIN crudValues : crudValues[i] # Null

\* The WHERE columns of the last update or delete call that passed the
\* argument test.
WhereColumns ==
  IF (op = "delete" /\ crudWhere.isArray)
       \/ (op = "update" /\ crudData.isArray /\ crudWhere.isArray)
    THEN DOMAIN crudWhere.values
  ELSE {}

\* C24: in update and delete the statement holds one WHERE predicate per
\* supplied column, in the order supplied, and the predicate of a column
\* whose value is null is IS NULL.
C24_NullWhereIsNull ==
  (\E k \in WhereColumns : crudWhere.values[k] = Null)
    => /\ DOMAIN crudSql.where = WhereColumns
       /\ \A k \in WhereColumns :
            /\ crudSql.where[k][1] = FieldName(crudWhere, k)
            /\ crudWhere.values[k] = Null
                 => crudSql.where[k] = << FieldName(crudWhere, k), "IS NULL" >>

\* C25: a call of insert, replace, update or delete that passed the
\* argument test builds a statement and returns what query() makes of it.
C25_CrudGoesThroughQuery ==
     (/\ op \in {"insert", "replace", "update", "delete"}
      /\ op = "delete" => crudWhere.isArray
      /\ op = "update" => crudData.isArray /\ crudWhere.isArray)
       => /\ crudRet = "query"
          /\ crudSql # NoSql

\* The positions of the rows of lastResult whose first column holds key.
RowsKeyed(key) == {i \in DOMAIN lastResult : lastResult[i][3] = key}

\* C29: getResults with OBJECT_K returns the rows under the values of
\* their first column, each value with the last row that holds it.
C29_KeyedByFirstColumnLastWins ==
  (/\ op = "getResults" /\ awaiting = "none" /\ grOutput = OBJECT_K
   /\ ret = "number")
    => /\ grRet.kind = "keyed"
       /\ DOMAIN grRet.keyed = {lastResult[i][3] : i \in DOMAIN lastResult}
       /\ \A key \in DOMAIN grRet.keyed :
            \E i \in RowsKeyed(key) :
              /\ grRet.keyed[key] = lastResult[i]
              /\ \A j \in RowsKeyed(key) : j <= i

\* C30: a query() call on a SELECT that ends without an error returns the
\* rows of the result, none when there is none.
C30_SelectReturnsRows ==
  (/\ op = "query" /\ pc = "idle" /\ curQuery \in SelectQueries
   /\ ret \notin {"false", "threw"})
    => ret = "rows"

C27_SkippedValuesUntouched ==
  op = "stripInvalidText"
    => /\ \A k \in DOMAIN sitData :
            (sitData[k].charset = "false" \/ ~sitData[k].isString)
              => sitOut[k] = sitData[k] /\ k \notin sitParts
       /\ (\A k \in DOMAIN sitData :
             sitData[k].charset = "false" \/ ~sitData[k].isString)
            => sitCalls = 0 /\ sitRet = "data"

\* A string longer than its limit under charset false came back as given.
C27_Witness ==
  /\ op = "stripInvalidText" /\ sitRet = "data"
  /\ \E k \in DOMAIN sitData :
       /\ sitData[k].isString /\ sitData[k].charset = "false"
       /\ byteLength(sitData[k].chars, 1) > sitData[k].length.length
       /\ sitOut[k] = sitData[k]

\* No surrogate half without its other half.
WellFormed(str) ==
  \A i \in DOMAIN str :
    /\ str[i] = "HS" => i < Len(str) /\ str[i + 1] = "LS"
    /\ str[i] = "LS" => i > 1 /\ str[i - 1] = "HS"

\* C28: a string of a utf8mb4 column with a byte length comes back no
\* longer than that length in UTF-8 bytes, and well-formed.
C28_WithinByteCeiling ==
  op = "stripInvalidText"
    => \A k \in DOMAIN sitData :
         (/\ sitData[k].isString /\ sitData[k].charset = "utf8mb4"
          /\ sitData[k].length.type = "byte")
           => /\ byteLength(sitOut[k].chars, 1) <= sitData[k].length.length
              /\ WellFormed(sitOut[k].chars)

C36_NotReadyQueryChangesNothing ==
  [][(pc = "idle" /\ ~ready /\ op' = "query") =>
       /\ ret' = "false" /\ pc' = "idle"
       /\ UNCHANGED << numQueries, lastQuery, lastResult, dbh >>
       /\ execs' = 0 /\ sends' = 0
       /\ tries' = 0 /\ attempts' = 0]_vars

\* A statement was handed to query() on an instance with a handle and an
\* earlier result, but not ready.
C36_Witness ==
  /\ op = "query" /\ pc = "idle" /\ ~ready /\ ret = "false"
  /\ curQuery # "" /\ curQuery # lastQuery
  /\ dbh # Null /\ numQueries > 0 /\ lastResult # << >>

C39_OneSendPerQuery ==
  (op = "query" /\ pc = "idle" /\ execs > 0 /\ ~lossDetected) =>
    (sends = 1 /\ execs = 1)

InCheckConnection == pc \in {"cc_probe", "cc_attempt", "cc_delay"}

\* C34: a checkConnection call never makes more than reconnectRetries
\* reconnect attempts, and every call that is in progress eventually ends
\* with an outcome, also when no attempt ever succeeds.
C34_CheckConnectionFinishes ==
  /\ [](attempts <= reconnectRetries /\ delays <= reconnectRetries)
  /\ InCheckConnection ~> (~InCheckConnection /\ ccRet # "none")

\* A call ended after reconnectRetries attempts none of which reached the
\* server.
C34_Witness ==
  /\ op = "checkConnection" /\ pc = "idle"
  /\ attempts = reconnectRetries /\ delays = reconnectRetries
  /\ ~anyPhysOk /\ ccRet = "false"

\* C40: an insert or replace call that built no statement has returned
\* false, and insertId is 0 after it.
C40_FailedInsertClearsId ==
  (op \in {"insert", "replace"} /\ crudRet # "query") =>
    (crudRet = "false" /\ insertId = 0)

\* C32: when the charset of a column of insert, replace, update or delete
\* could not be resolved, the call has returned false, built no statement
\* and thrown nothing.
C32_CharsetFailureIsValue ==
  (/\ op \in {"insert", "replace", "update", "delete"}
   /\ processFields(IF op = "delete" THEN crudWhere ELSE crudData,
                    IF op = "delete" THEN crudWhereFormat
                    ELSE crudFormat).kind = "threw")
    => (crudRet = "false" /\ crudSql = NoSql)

\* C31: getTableFromQuery returns the table of the first of its four
\* patterns that matches, without backticks, and false when none matches;
\* stripInvalidTextFromQuery then checks the statement against the charset
\* of the connection and returns it.
C31_FirstPatternElseConnectionCharset ==
  /\ op = "getTableFromQuery" =>
       gtqRet = (IF commonDml(gtqQuery) # "" THEN Untick(commonDml(gtqQuery))
                 ELSE IF showWhereName(gtqQuery) # "" THEN "t"
                 ELSE IF showLike(gtqQuery) # "" THEN "t"
                 ELSE IF broadDdl(gtqQuery) # ""
                   THEN Untick(broadDdl(gtqQuery))
                 ELSE "false")
  /\ (op = "stripInvalidTextFromQuery" /\ gtqRet = "false") =>
       sifqRet = [ret |-> "query", charset |-> "connection"]

\* C35: no getTableCharset call passes an introspection statement to the
\* server for a table key for which an earlier call has already passed one.
C35_IntrospectedOnce ==
  ~(op = "getTableCharset" /\ gtcAgain /\ gtcIssued)

\* ================================================================ specs
\* Connection lifecycle on its own: connect, close, checkConnection.
NextConn ==
  \/ set
  \/ dbConnectTrue
  \/ close
  \/ checkConnectionStart
  \/ checkConnectionProbe
  \/ checkConnectionAttempt
  \/ checkConnectionDelay

SpecConn == Init /\ [][NextConn]_vars

\* The same operations with the arguments of set calls observed.
SpecSet == InitObserved /\ [][NextConn]_vars

\* The same, with the event loop running every continuation that is due:
\* the driver settles the promise of the probe and of each connect, and the
\* one-second timer fires.
SpecConnFair ==
  /\ SpecConn
  /\ WF_vars(checkConnectionProbe)
  /\ WF_vars(checkConnectionAttempt)
  /\ WF_vars(checkConnectionDelay)

\* The connection operations and query() alone, without set: ready is
\* never true, so no query() call gets past its first test.
NextLifecycle ==
  \/ dbConnectTrue
  \/ close
  \/ checkConnectionStart
  \/ checkConnectionProbe
  \/ checkConnectionAttempt
  \/ checkConnectionDelay
  \/ queryStart

SpecLifecycle == Init /\ [][NextLifecycle]_vars

\* Query execution, with the reconnect that query() runs inside itself.
NextQuery ==
  \/ set
  \/ dbConnectTrue
  \/ close
  \/ checkConnectionProbe
  \/ checkConnectionAttempt
  \/ checkConnectionDelay
  \/ queryStart
  \/ queryExec1
  \/ queryExec2
  \/ queryFinish

SpecQuery == Init /\ [][NextQuery]_vars

\* Charset introspection, with the query getTableCharset leaves running.
NextCharset ==
  \/ set
  \/ getTableCharset
  \/ checkConnectionProbe
  \/ checkConnectionAttempt
  \/ checkConnectionDelay
  \/ queryExec1
  \/ queryExec2
  \/ queryFinish

SpecCharset == Init /\ [][NextCharset]_vars

\* Prefix and tenant operations, in every environment.
NextPrefix ==
  \/ setPrefix
  \/ setBlogId
  \/ callGetBlogPrefix

SpecPrefix == InitEnv /\ [][NextPrefix]_vars

\* Calls of prepare.
NextPrepare ==
  \/ prepare

SpecPrepare == Init /\ [][NextPrepare]_vars

\* prepare and the placeholder-escape operations.
NextEscape ==
  \/ prepare
  \/ callPlaceholderEscape
  \/ callAddPlaceholderEscape
  \/ callRemovePlaceholderEscape

SpecEscape == Init /\ [][NextEscape]_vars

\* getResults, with the query() it awaits.
NextResults ==
  \/ set
  \/ checkConnectionProbe
  \/ checkConnectionAttempt
  \/ checkConnectionDelay
  \/ getResultsStart
  \/ queryExec1
  \/ queryExec2
  \/ queryFinish
  \/ getResultsFinish

SpecResults == Init /\ [][NextResults]_vars

\* stripInvalidText on an instance as the constructor leaves it: connected
\* or not, and not ready.
NextStrip ==
  \/ dbConnectTrue
  \/ stripInvalidText
  \/ stripInvalidTextFinish

SpecStrip == Init /\ [][NextStrip]_vars

\* insert, replace, update and delete.
NextCrud ==
  \/ insert
  \/ replace
  \/ update
  \/ delete

SpecCrud == Init /\ [][NextCrud]_vars

\* The two statement functions, on every statement of the model.
NextStatement ==
  \/ callGetTableFromQuery
  \/ callStripInvalidTextFromQuery

SpecStatement == InitStatement /\ [][NextStatement]_vars

Next ==
  \/ callGetTableFromQuery
  \/ callStripInvalidTextFromQuery
  \/ set
  \/ dbConnectTrue
  \/ close
  \/ checkConnectionStart
  \/ checkConnectionProbe
  \/ checkConnectionAttempt
  \/ checkConnectionDelay
  \/ queryStart
  \/ queryExec1
  \/ queryExec2
  \/ queryFinish
  \/ getTableCharset
  \/ setPrefix
  \/ setBlogId
  \/ callGetBlogPrefix
  \/ prepare
  \/ callPlaceholderEscape
  \/ callAddPlaceholderEscape
  \/ callRemovePlaceholderEscape
  \/ insert
  \/ replace
  \/ update
  \/ delete
  \/ getResultsStart
  \/ getResultsFinish
  \/ stripInvalidText
  \/ stripInvalidTextFinish

Spec == Init /\ [][Next]_vars
====
